---- MODULE Spec2Model ----
(***************************************************************************)
(* Shape-hierarchy reconstruction and page index of penai (src/penai/svg.py)*)
(*                                                                         *)
(* The document is an lxml tree.  A node is an element; parent[n] is       *)
(* n.getparent() (NoNode for a tree root or a detached element), the       *)
(* children of an element are ordered by node number, which is their       *)
(* document order in the parsed file.                                      *)
(*                                                                         *)
(* A <penpot:shape> marker and the <g id="shape-..."> that contains it are *)
(* in one-to-one correspondence (class docstring of PenpotShapeElement),   *)
(* so a shape is one node: a "g" element with marker[n] = TRUE.  The       *)
(* marker's own attributes (penpot:type, viewBox) are kept per node in     *)
(* shape_type, name and view_box, the group's id and visibility attributes *)
(* in gid and hidden.                                                      *)
(***************************************************************************)
EXTENDS Integers, Sequences, FiniteSets, TLC

\* ---------------------------------------------------------------- bounds
MaxNodes == 5
MaxSessions == 1
MaxBoxShapes == 2
MaxSelected == 2
MaxNames == 2
MaxIds == 2
MaxPages == 2
MaxCodeLen == 3
MaxIdValues == 2

\* what a call returned or raised: the operation, the outcome, the value
Ret(op, out, val) == [op |-> op, out |-> out, val |-> val]

Nodes == 1..MaxNodes
Root == 1
NoNode == 0

VARIABLES
    tag,                \* element -> "svg" | "g" | "path"
    marker,             \* element -> TRUE iff it has a <penpot:shape> child
    gid,                \* element -> its shape id ("shape-<n>" as n), 0: none
    shape_type,         \* element -> penpot:type literal of its marker
    style,              \* element -> "plain" | "opacity0" | "fillnone" (paths)
    name,               \* element -> penpot:name of its marker
    clip_rect,          \* element -> the <rect> of the clip path it refers to
    hidden,             \* element -> TRUE iff visibility="hidden" on the group
    parent,             \* element -> getparent()
    shape_elements,     \* PenpotPageSVG._shape_elements
    depth_to_shape_el,  \* PenpotPageSVG._depth_to_shape_el
    shape_el_to_depth,  \* PenpotPageSVG._shape_el_to_depth
    wrapper,            \* the PenpotShapeElement objects held by the index
    view_box,           \* element -> the viewBox attribute of its marker
    copy_view_box,      \* the same attribute in a second page on a copy of the document
    sessions,           \* renderer (web driver) sessions opened so far
    fragment,           \* the tree last extracted from a shape, <<>>: none yet
    trees,              \* document objects by identity, for pages sharing a parsed document
    pages,              \* the page objects built on them
    svg_code,           \* the SVG code handed to ensure_unique_ids_in_svg_code
    ret                 \* outcome of the last call

doc == <<tag, marker, gid, shape_type, style, name, clip_rect>>
index == <<shape_elements, depth_to_shape_el, shape_el_to_depth, wrapper>>
aux == <<fragment, trees, pages, svg_code>>
vars == <<tag, marker, gid, shape_type, style, name, clip_rect, hidden, parent,
          shape_elements, depth_to_shape_el, shape_el_to_depth, wrapper,
          view_box, copy_view_box, sessions, fragment, trees, pages, svg_code, ret>>

\* ------------------------------------------------------------- sequences
Range(s) == {s[i] : i \in 1..Len(s)}

RECURSIVE SetToSeq(_)
SetToSeq(S) ==
    IF S = {} THEN <<>>
    ELSE LET m == CHOOSE x \in S : \A y \in S : x <= y
         IN <<m>> \o SetToSeq(S \ {m})

\* v bound once to x in F(x)
Let(v, F(_)) == CHOOSE y \in {F(x) : x \in {v}} : TRUE

RECURSIVE Flatten(_)
Flatten(ss) == IF ss = <<>> THEN <<>> ELSE Head(ss) \o Flatten(Tail(ss))

\* ------------------------------------------------------------- the tree
\* list(el): the children of an element, in document order
Children(par, n) == SetToSeq({c \in Nodes : par[c] = n})

\* el.iter(): the element and its descendants, pre-order
RECURSIVE Iter(_, _)
Iter(par, n) ==
    LET ch == Children(par, n)
    IN <<n>> \o Flatten([i \in 1..Len(ch) |-> Iter(par, ch[i])])

\* the elements of the subtree of n
Subtree(par, n) == Range(Iter(par, n))

\* the element and the chain of its getparent()
RECURSIVE AncestorsOrSelf(_, _)
AncestorsOrSelf(par, n) ==
    IF n = NoNode THEN {} ELSE {n} \cup AncestorsOrSelf(par, par[n])

\* _el_is_penpot_shape(child) for some child of n: n directly contains a marker
HasShapeMarker(n) == marker[n]

_el_is_group(n) == tag[n] = "g"

\* --------------------------------------------------- PenpotShapeElement
\* A shape is named by the node of its containing <g> (get_containing_g_element).

\* a walk that keeps climbing and answers the outermost shape group
RECURSIVE ParentShapeOutermost(_, _)
ParentShapeOutermost(par, cand) ==
    IF cand = NoNode THEN NoNode
    ELSE IF ParentShapeOutermost(par, par[cand]) # NoNode
    THEN ParentShapeOutermost(par, par[cand])
    ELSE IF _el_is_group(cand) /\ HasShapeMarker(cand) THEN cand
    ELSE NoNode

\* the walk of get_parent_shape from a candidate upwards
RECURSIVE ParentShapeFrom(_, _)
ParentShapeFrom(par, cand) ==
    IF cand = NoNode THEN NoNode
    ELSE IF _el_is_group(cand) /\ HasShapeMarker(cand) THEN cand
    ELSE ParentShapeFrom(par, par[cand])

get_parent_shape(par, s) == ParentShapeFrom(par, par[s])

RECURSIVE get_all_parent_shapes(_, _)
get_all_parent_shapes(par, s) ==
    LET p == get_parent_shape(par, s)
    IN IF p = NoNode THEN <<>> ELSE <<p>> \o get_all_parent_shapes(par, p)

\* PenpotShapeElement.__init__: the wrapper object and what it caches
PenpotShapeElement(par, n) ==
    [el |-> n,
     depth_in_shapes |-> Len(get_all_parent_shapes(par, n)),
     child_shapes |-> <<>>]

\* defaultdict(list)[d].append(x)
AppendAt(d2s, d, x) ==
    IF d \in DOMAIN d2s
    THEN [d2s EXCEPT ![d] = Append(@, x)]
    ELSE [k \in DOMAIN d2s \cup {d} |-> IF k = d THEN <<x>> ELSE d2s[k]]

\* dict[k] = v
PutAt(f, k, v) == [x \in DOMAIN f \cup {k} |-> IF x = k THEN v ELSE f[x]]

\* the loop of find_all_penpot_shapes, at the i-th element of root.iter()
RECURSIVE FindAllLoop(_, _, _, _)
FindAllLoop(par, els, i, acc) ==
    IF i > Len(els) THEN acc
    ELSE IF ~HasShapeMarker(els[i]) THEN FindAllLoop(par, els, i + 1, acc)
    ELSE Let(PenpotShapeElement(par, els[i]), LAMBDA shape_el :
         Let([shapes |-> Append(acc.shapes, shape_el),
              depth_to |-> AppendAt(acc.depth_to, shape_el.depth_in_shapes, shape_el.el),
              to_depth |-> PutAt(acc.to_depth, shape_el.el, shape_el.depth_in_shapes)],
             LAMBDA acc2 : FindAllLoop(par, els, i + 1, acc2)))

EmptyFn == [k \in {} |-> 0]

find_all_penpot_shapes(par, root) ==
    Let(Iter(par, root), LAMBDA els :
        FindAllLoop(par, els, 1,
                    [shapes |-> <<>>, depth_to |-> EmptyFn, to_depth |-> EmptyFn]))

\* the elements of a list of wrappers
Els(ws) == [i \in 1..Len(ws) |-> ws[i].el]

\* a scan that looks only at the element children of the containing group
ChildrenShapesOneLevel(par, s) ==
    LET result == SelectSeq(Children(par, s), LAMBDA c : HasShapeMarker(c))
    IN [i \in 1..Len(result) |-> PenpotShapeElement(par, result[i])]

get_all_children_shapes(par, s) ==
    LET result == find_all_penpot_shapes(par, s).shapes
    IN SelectSeq(result, LAMBDA w : w.el # s)

\* the children without the filter on get_parent_shape
DirectChildrenUnfiltered(par, s) ==
    LET result == find_all_penpot_shapes(par, s).shapes
    IN SelectSeq(result, LAMBDA w : w.el # s)

get_direct_children_shapes(par, s) ==
    SelectSeq(get_all_children_shapes(par, s),
              LAMBDA w : get_parent_shape(par, w.el) = s)

\* PenpotShapeElement.shape_id: the id attribute of the containing <g>
shape_id(s) == gid[s]

\* get_inner_g_elements: xpath default:g[not(starts-with(@id, 'shape-'))]
get_inner_g_elements(par, s) ==
    SelectSeq(Children(par, s), LAMBDA c : _el_is_group(c) /\ gid[c] = 0)

_el_has_visible_content(par, el) ==
    LET children == Children(par, el)
    IN IF children = <<>> THEN FALSE
       ELSE IF Len(children) = 1 /\ tag[children[1]] = "path"
       THEN LET path == children[1]
            IN IF style[path] = "opacity0" THEN FALSE
               ELSE IF Children(par, path) = <<>> /\ style[path] = "fillnone"
               THEN FALSE
               ELSE TRUE
       ELSE TRUE

\* the child_shapes property: fills the wrapper's cache when it is empty
child_shapes(par, w) ==
    IF w.child_shapes = <<>>
    THEN [w EXCEPT !.child_shapes = get_direct_children_shapes(par, w.el)]
    ELSE w

\* check_for_visible_content on a wrapper: the answer and the wrapper with
\* the caches the call has filled (any() stops at the first visible child)
RECURSIVE check_for_visible_content(_, _)
RECURSIVE AnyChildVisible(_, _, _)
check_for_visible_content(par, w) ==
    IF shape_type[w.el] = "group"
    THEN LET w1 == child_shapes(par, w)
             r == AnyChildVisible(par, w1.child_shapes, 1)
         IN [res |-> r.res, w |-> [w1 EXCEPT !.child_shapes = r.kids]]
    ELSE LET inner_groups == get_inner_g_elements(par, w.el)
         IN [res |-> \E i \in 1..Len(inner_groups) :
                        _el_has_visible_content(par, inner_groups[i]),
             w |-> w]

AnyChildVisible(par, kids, i) ==
    IF i > Len(kids) THEN [res |-> FALSE, kids |-> kids]
    ELSE LET c == check_for_visible_content(par, kids[i])
             kids2 == [kids EXCEPT ![i] = c.w]
         IN IF c.res THEN [res |-> TRUE, kids |-> kids2]
            ELSE AnyChildVisible(par, kids2, i + 1)

\* -------------------------------------------------------- PenpotPageSVG
\* _get_shapes_by_attr("shape_id", id, should_be_unique=True)
\* an id lookup that settles for the first match
GetShapeByIdFirstMatch(shapes, id) ==
    LET matched_shapes == SelectSeq(shapes, LAMBDA s : shape_id(s) = id)
    IN IF Len(matched_shapes) = 0 THEN [out |-> "KeyError", val |-> NoNode]
       ELSE [out |-> "ok", val |-> matched_shapes[1]]

get_shape_by_id(shapes, id) ==
    LET matched_shapes == SelectSeq(shapes, LAMBDA s : shape_id(s) = id)
    IN IF Len(matched_shapes) = 0 THEN [out |-> "KeyError", val |-> NoNode]
       ELSE IF Len(matched_shapes) > 1 THEN [out |-> "RuntimeError", val |-> NoNode]
       ELSE [out |-> "ok", val |-> matched_shapes[1]]

\* _get_shapes_by_attr(attr_name, attr_value, should_be_unique); attr is the
\* attribute as a function of the element; val is the list of matches, or
\* the single match when should_be_unique
\* an attribute write that refuses a value another element carries
SetPenpotAttrIfUnused(attr, s, value) ==
    IF \E t \in DOMAIN attr : t # s /\ attr[t] = value THEN attr
    ELSE [attr EXCEPT ![s] = value]

\* set_penpot_attr(key, value): the attribute of the marker is overwritten
set_penpot_attr(attr, s, value) == [attr EXCEPT ![s] = value]

_get_shapes_by_attr(shapes, attr, attr_value, should_be_unique) ==
    LET matched_shapes == SelectSeq(shapes, LAMBDA s : attr[s] = attr_value)
    IN IF ~should_be_unique THEN [out |-> "ok", val |-> matched_shapes]
       ELSE IF Len(matched_shapes) = 0 THEN [out |-> "KeyError", val |-> NoNode]
       ELSE IF Len(matched_shapes) > 1 THEN [out |-> "RuntimeError", val |-> NoNode]
       ELSE [out |-> "ok", val |-> matched_shapes[1]]

\* a name lookup that returns the last match when uniqueness is not required
GetShapeByNameLast(shapes, n, require_unique) ==
    LET result == _get_shapes_by_attr(shapes, name, n, require_unique)
    IN IF require_unique THEN result
       ELSE IF Len(result.val) = 0 THEN [out |-> "IndexError", val |-> NoNode]
       ELSE [out |-> "ok", val |-> result.val[Len(result.val)]]

\* get_shape_by_name(name, require_unique): result[0] of the list of matches
\* when uniqueness is not required, which fails on an empty list
get_shape_by_name(shapes, n, require_unique) ==
    LET result == _get_shapes_by_attr(shapes, name, n, require_unique)
    IN IF require_unique THEN result
       ELSE IF Len(result.val) = 0 THEN [out |-> "IndexError", val |-> NoNode]
       ELSE [out |-> "ok", val |-> result.val[1]]

\* PenpotShapeElement.__eq__: two wrappers are equal when they wrap the same element
ShapeEq(a, b) == a.el = b.el

\* PenpotShapeElement.__hash__: the hash of the wrapped element
ShapeHash(a) == a.el

\* min() where max() is meant
MinShapeDepth(d2s) ==
    IF DOMAIN d2s # {}
    THEN CHOOSE d \in DOMAIN d2s : \A e \in DOMAIN d2s : d <= e
    ELSE 0

max_shape_depth(d2s) ==
    IF DOMAIN d2s # {}
    THEN CHOOSE d \in DOMAIN d2s : \A e \in DOMAIN d2s : e <= d
    ELSE 0

\* defaultdict[depth]: a missing depth gets an empty bucket
ShapeElementsAtDepthByIndexing(d2s, depth) ==
    IF depth \in DOMAIN d2s THEN [val |-> d2s[depth], d2s |-> d2s]
    ELSE [val |-> <<>>,
          d2s |-> [k \in DOMAIN d2s \cup {depth} |->
                      IF k = depth THEN <<>> ELSE d2s[k]]]

\* dict.get(depth, []) on the defaultdict
get_shape_elements_at_depth(d2s, depth) ==
    [val |-> IF depth \in DOMAIN d2s THEN d2s[depth] ELSE <<>>, d2s |-> d2s]

\* a rebuild from every shape group once parsed, attached or not
ResetStateFromAllElements(par) ==
    Let(FindAllLoop(par, SetToSeq(Nodes), 1,
                    [shapes |-> <<>>, depth_to |-> EmptyFn, to_depth |-> EmptyFn]),
        LAMBDA r :
        [shape_elements |-> Els(r.shapes),
         depth_to_shape_el |-> r.depth_to,
         shape_el_to_depth |-> r.to_depth,
         wrapper |-> [el \in Range(Els(r.shapes)) |->
                        r.shapes[CHOOSE i \in 1..Len(r.shapes) : r.shapes[i].el = el]]])

\* __init__ / _reset_state: the index as a full scan of the tree under Root
_reset_state(par) ==
    Let(find_all_penpot_shapes(par, Root), LAMBDA r :
        [shape_elements |-> Els(r.shapes),
         depth_to_shape_el |-> r.depth_to,
         shape_el_to_depth |-> r.to_depth,
         wrapper |-> [el \in Range(Els(r.shapes)) |->
                        r.shapes[CHOOSE i \in 1..Len(r.shapes) : r.shapes[i].el = el]]])

\* dropping the group's tag only: its children move up to its parent
DetachKeepingChildren(par, g) ==
    [n \in DOMAIN par |-> IF n = g THEN NoNode
                          ELSE IF par[n] = g THEN par[g] ELSE par[n]]

\* container_g.getparent().remove(container_g)
Detach(par, g) == [par EXCEPT ![g] = NoNode]

\* a removal that takes the group around the shape's group with it
RemoveEnclosingGroupFromTree(par, shapes, id) ==
    LET shape == get_shape_by_id(shapes, id)
    IN IF shape.out # "ok" THEN [out |-> shape.out, par |-> par]
       ELSE IF par[shape.val] = NoNode
       THEN [out |-> "AttributeError", par |-> par]
       ELSE IF par[shape.val] = Root
       THEN [out |-> "ok", par |-> Detach(par, shape.val)]
       ELSE [out |-> "ok", par |-> Detach(par, par[shape.val])]

_remove_shape_from_tree(par, shapes, id) ==
    LET shape == get_shape_by_id(shapes, id)
    IN IF shape.out # "ok" THEN [out |-> shape.out, par |-> par]
       ELSE IF par[shape.val] = NoNode
       THEN [out |-> "AttributeError", par |-> par]
       ELSE [out |-> "ok", par |-> Detach(par, shape.val)]

\* the check after the rebuild: the first id that still resolves is fatal,
\* and only KeyError is caught
RECURSIVE CheckRemoved(_, _)
CheckRemoved(shapes, ids) ==
    IF ids = <<>> THEN "ok"
    ELSE LET r == get_shape_by_id(shapes, Head(ids))
         IN IF r.out = "KeyError" THEN CheckRemoved(shapes, Tail(ids))
            ELSE IF r.out = "ok" THEN "AssertionError"
            ELSE r.out

\* sorted without reverse=True: shallowest first
RECURSIVE SortedByDepthAsc(_, _, _)
SortedByDepthAsc(shapes, wr, d) ==
    IF d < 0 THEN <<>>
    ELSE SortedByDepthAsc(shapes, wr, d - 1)
         \o SelectSeq(shapes, LAMBDA s : wr[s].depth_in_shapes = d)

\* no sorting: the shapes in the order of the index
SortedByDocumentOrder(shapes, wr, d) == shapes

\* sorted(shapes, key=depth_in_shapes, reverse=True): stable, deepest first
RECURSIVE SortedByDepthDesc(_, _, _)
SortedByDepthDesc(shapes, wr, d) ==
    IF d < 0 THEN <<>>
    ELSE SelectSeq(shapes, LAMBDA s : wr[s].depth_in_shapes = d)
         \o SortedByDepthDesc(shapes, wr, d - 1)

\* the loop of remove_elements_with_no_visible_content; an exception leaves
\* the loop with the tree as mutated so far
RECURSIVE PruneLoop(_, _, _)
PruneLoop(todo, shapes, st) ==
    IF todo = <<>> THEN st
    ELSE LET shape == Head(todo)
             c == check_for_visible_content(st.par, st.wr[shape])
             wr2 == [st.wr EXCEPT ![shape] = c.w]
         IN IF c.res
            THEN PruneLoop(Tail(todo), shapes, [st EXCEPT !.wr = wr2])
            ELSE LET rm == _remove_shape_from_tree(st.par, shapes, shape_id(shape))
                 IN IF rm.out # "ok"
                    THEN [st EXCEPT !.wr = wr2, !.out = rm.out]
                    ELSE PruneLoop(Tail(todo), shapes,
                             [par |-> rm.par, wr |-> wr2, out |-> "ok",
                              removed_ids |-> Append(st.removed_ids, shape_id(shape))])

\* ---------------------------------------------------------- BoundingBox
NoBox == [none |-> TRUE]

BoundingBox(x, y, width, height) ==
    [x |-> x, y |-> y, width |-> width, height |-> height]

\* f"{x} {y} {width} {height}": the text as its four space-separated numbers
to_view_box_string(b) == <<b.x, b.y, b.width, b.height>>

\* cls(*map(float, view_box.split()))
from_view_box_string(str) == BoundingBox(str[1], str[2], str[3], str[4])

\* the _default_view_box property: an absent or empty attribute is None
_default_view_box(vb, s) ==
    IF vb[s] # <<>> THEN from_view_box_string(vb[s]) ELSE NoBox

\* the rectangles a renderer reports (getBBox), or none
Boxes == {BoundingBox(0, 0, 2, 1), BoundingBox(1, 2, 0, 3)}

\* falling back to a default renderer when none is passed
DefaultViewBoxWithDefaultDriver(vb, s, web_driver, rendered) ==
    IF _default_view_box(vb, s) # NoBox
    THEN [out |-> "ok", val |-> _default_view_box(vb, s), vb |-> vb, opened |-> 0]
    ELSE IF rendered = NoBox
    THEN [out |-> "ValueError", val |-> NoBox, vb |-> vb, opened |-> 1]
    ELSE [out |-> "ok", val |-> rendered,
          vb |-> [vb EXCEPT ![s] = to_view_box_string(rendered)], opened |-> 1]

\* rendering whenever a renderer is passed, an explicit box or not
DefaultViewBoxRenderingFirst(vb, s, web_driver, rendered) ==
    IF web_driver = "none"
    THEN IF _default_view_box(vb, s) # NoBox
         THEN [out |-> "ok", val |-> _default_view_box(vb, s), vb |-> vb, opened |-> 0]
         ELSE [out |-> "ValueError", val |-> NoBox, vb |-> vb, opened |-> 0]
    ELSE IF rendered = NoBox
    THEN [out |-> "ValueError", val |-> NoBox, vb |-> vb, opened |-> 1]
    ELSE [out |-> "ok", val |-> rendered,
          vb |-> [vb EXCEPT ![s] = to_view_box_string(rendered)], opened |-> 1]

\* get_default_view_box(web_driver) on a shape, the renderer answering
\* `rendered`: what is returned or raised, the attribute map and whether a
\* renderer session was opened
get_default_view_box(vb, s, web_driver, rendered) ==
    IF _default_view_box(vb, s) # NoBox
    THEN [out |-> "ok", val |-> _default_view_box(vb, s), vb |-> vb, opened |-> 0]
    ELSE IF web_driver = "none"
    THEN [out |-> "ValueError", val |-> NoBox, vb |-> vb, opened |-> 0]
    ELSE IF rendered = NoBox
    THEN [out |-> "ValueError", val |-> NoBox, vb |-> vb, opened |-> 1]
    ELSE [out |-> "ok", val |-> rendered,
          vb |-> [vb EXCEPT ![s] = to_view_box_string(rendered)], opened |-> 1]

\* NonNegativeFloat on width and height of the pydantic dataclass
ValidBox(r) == r.width >= 0 /\ r.height >= 0

\* what getBBox() may answer: a rectangle, one of negative extent, or null
NegativeRect == [x |-> 0, y |-> 0, width |-> 0 - 1, height |-> 1]

DomRects == {BoundingBox(0, 0, 2, 1), NegativeRect, NoBox}

\* a plain dataclass in place of the validating one
FromDomRectUnvalidated(dom_rect) ==
    IF dom_rect = NoBox THEN [out |-> "TypeError", val |-> NoBox]
    ELSE [out |-> "ok",
          val |-> BoundingBox(dom_rect.x, dom_rect.y, dom_rect.width, dom_rect.height)]

\* BoundingBox.from_dom_rect: subscripting null fails, the dataclass validates
from_dom_rect(dom_rect) ==
    IF dom_rect = NoBox THEN [out |-> "TypeError", val |-> NoBox]
    ELSE IF ~ValidBox(dom_rect) THEN [out |-> "ValidationError", val |-> NoBox]
    ELSE [out |-> "ok",
          val |-> BoundingBox(dom_rect.x, dom_rect.y, dom_rect.width, dom_rect.height)]

\* the clip rectangle a document gives to a shape's group
ClipBox == BoundingBox(1, 1, 1, 1)

\* get_clip_rect: the <rect> of the referenced <clipPath>, None without clip-path
get_clip_rect(s) == clip_rect[s]

\* SVG.get_view_box on a root carrying the viewBox attribute
get_view_box(view_box_str) ==
    BoundingBox(view_box_str[1], view_box_str[2], view_box_str[3], view_box_str[4])

\* to_svg(view_box="default"): the view box of the SVG it builds
to_svg(vb, s) ==
    LET r == get_default_view_box(vb, s, "none", NoBox)
    IN IF r.out # "ok" THEN [out |-> r.out, val |-> NoBox]
       ELSE [out |-> "ok", val |-> get_view_box(to_view_box_string(r.val))]

\* a shape object a caller holds: of this page, or of a second page built on
\* a copy of the same document (SVG.__init__ copies the tree it is given)
ShapeRef(page, el) == [page |-> page, el |-> el]

RefsOf(page, els) == [i \in 1..Len(els) |-> ShapeRef(page, els[i])]

\* {s.shape_id for s in selected}.difference({s.shape_id for s in page})
non_contained_shape_ids(selected, shapes) ==
    {shape_id(selected[i].el) : i \in 1..Len(selected)}
        \ {shape_id(shapes[i]) : i \in 1..Len(shapes)}

\* the loop of retrieve_and_set_view_boxes_for_shape_elements inside the
\* renderer session; st carries both attribute maps, the outcome and the
\* number of getBBox queries; ret keeps that number and the argument
RECURSIVE RetrieveLoop(_, _, _, _)
RetrieveLoop(selected, i, rendered, st) ==
    IF i > Len(selected) THEN st
    ELSE LET shape_el == selected[i]
             use_clip == /\ shape_type[shape_el.el] = "frame"
                         /\ get_clip_rect(shape_el.el) # NoBox
             got == IF use_clip
                    THEN [out |-> "ok", val |-> get_clip_rect(shape_el.el)]
                    ELSE from_dom_rect(rendered[shape_el.el])
             q == IF use_clip THEN st.queries ELSE st.queries + 1
         IN IF got.out # "ok"
            THEN [st EXCEPT !.out = got.out, !.queries = q]
            ELSE RetrieveLoop(selected, i + 1, rendered,
                    IF shape_el.page = "page"
                    THEN [st EXCEPT !.queries = q,
                             !.vb[shape_el.el] = to_view_box_string(got.val)]
                    ELSE [st EXCEPT !.queries = q,
                             !.cvb[shape_el.el] = to_view_box_string(got.val)])

\* -------------------------------------------------------------- extraction
\* An extracted tree keeps the element numbers of the elements it was copied
\* from; the <svg> element created around a copied group is numbered Root.

\* a copy of the element and of its children only
FromRootElementShallow(par, element) ==
    [src |-> par, copied |-> TRUE, root |-> Root,
     par |-> [n \in DOMAIN par |->
                IF n = element THEN Root
                ELSE IF par[n] = element THEN element ELSE NoNode]]

\* no copy: root.append(element) moves the element out of its document
FromRootElementNoCopy(par, element) ==
    [src |-> Detach(par, element), copied |-> FALSE, root |-> Root,
     par |-> [n \in DOMAIN par |->
                IF n = element THEN Root
                ELSE IF n \in Subtree(par, element) THEN par[n] ELSE NoNode]]

\* SVG.from_root_element(element): a deep copy of the element, put under a
\* new <svg> root unless it is an <svg> itself; src is the tree it was taken
\* from as the call leaves it
from_root_element(par, element) ==
    IF tag[element] # "svg"
    THEN Let(Subtree(par, element), LAMBDA copy :
             [src |-> par, copied |-> TRUE, root |-> Root,
              par |-> [n \in DOMAIN par |->
                         IF n = element THEN Root
                         ELSE IF n \in copy THEN par[n] ELSE NoNode]])
    ELSE Let(Subtree(par, element), LAMBDA copy :
             [src |-> par, copied |-> TRUE, root |-> element,
              par |-> [n \in DOMAIN par |->
                         IF n \in copy \ {element} THEN par[n] ELSE NoNode]])

\* SVG.to_string: the tree below root written as nested tags
RECURSIVE to_string(_, _)
to_string(par, root) ==
    <<[t |-> "open", el |-> root]>>
    \o Flatten([i \in 1..Len(Children(par, root)) |->
                  to_string(par, Children(par, root)[i])])
    \o <<[t |-> "close", el |-> root]>>

\* the parser: an opening tag hangs its element under the innermost open
\* element, a closing tag closes that one
RECURSIVE ParseLoop(_, _, _, _)
ParseLoop(string, i, open, par) ==
    IF i > Len(string) THEN par
    ELSE IF string[i].t = "open"
    THEN ParseLoop(string, i + 1, Append(open, string[i].el),
                   [par EXCEPT ![string[i].el] =
                      IF open = <<>> THEN NoNode ELSE open[Len(open)]])
    ELSE ParseLoop(string, i + 1, SubSeq(open, 1, Len(open) - 1), par)

\* BetterElement.parse_string
parse_string(string) == ParseLoop(string, 1, <<>>, [n \in Nodes |-> NoNode])

\* _find_g_sibling of the shape marker of group g: the marker is the first
\* child of its group, so its following siblings are the element children of
\* g; the first <g> among them, whatever stands before it
_find_g_sibling(par, g) ==
    LET following == SelectSeq(Children(par, g), LAMBDA c : tag[c] = "g")
    IN IF following = <<>> THEN NoNode ELSE following[1]

\* _has_penpot_child
_has_penpot_child(el) == marker[el]

\* the loop of PenpotMinimalShapeXML._remove_unwanted_elements over
\* root.iter(): a retained element is skipped with its marker; otherwise the
\* marker of the element, if it has one, retains its <g> sibling and all below
\* it when that sibling has no marker of its own, and the element itself is
\* kept only if it is a <g> with a marker child
RECURSIVE RemoveUnwantedLoop(_, _, _, _)
RemoveUnwantedLoop(par, els, i, st) ==
    IF i > Len(els) THEN st
    ELSE IF els[i] \in st.retained
    THEN RemoveUnwantedLoop(par, els, i + 1, st)
    ELSE LET element == els[i]
             g_sibling == _find_g_sibling(par, element)
             retained_element_set ==
                 IF /\ marker[element]
                    /\ g_sibling # NoNode
                    /\ ~_has_penpot_child(g_sibling)
                 THEN st.retained \cup Subtree(par, g_sibling)
                 ELSE st.retained
             keep == tag[element] = "g" /\ _has_penpot_child(element)
         IN RemoveUnwantedLoop(par, els, i + 1,
                [retained |-> retained_element_set,
                 removed |-> IF keep THEN st.removed ELSE Append(st.removed, element)])

RECURSIVE DetachAll(_, _, _)
DetachAll(par, els, i) ==
    IF i > Len(els) THEN par ELSE DetachAll(Detach(par, els[i]), els, i + 1)

\* PenpotMinimalShapeXML._remove_unwanted_elements(tree): works on a deep
\* copy of the group and never raises
_remove_unwanted_elements(par, tree) ==
    Let(Subtree(par, tree) \ {tree}, LAMBDA below :
    Let([n \in DOMAIN par |-> IF n \in below THEN par[n] ELSE NoNode], LAMBDA root :
    Let(RemoveUnwantedLoop(root, Iter(root, tree), 1,
                           [retained |-> {}, removed |-> <<>>]), LAMBDA st :
        [out |-> "ok", src |-> par, copied |-> TRUE, root |-> tree,
         retained |-> st.retained,
         par |-> DetachAll(root, st.removed, 1)])))

\* ------------------------------------------------------------ shape types
\* the literals of PenpotShapeType, in the order of the enumeration
PenpotShapeTypeLiterals ==
    <<"group", "frame", "bool", "circle", "image", "path", "rect", "text">>

\* a lookup that takes an unknown literal for a group
GetByTypeLiteralCoercing(type_str) ==
    IF type_str \notin Range(PenpotShapeTypeLiterals)
    THEN [out |-> "ok", val |-> "group"]
    ELSE [out |-> "ok", val |-> type_str]

\* PenpotShapeType.get_by_type_literal: the error carries the literal and
\* the valid options
get_by_type_literal(type_str) ==
    IF type_str \notin Range(PenpotShapeTypeLiterals)
    THEN [out |-> "ValueError",
          val |-> [literal |-> type_str, valid |-> PenpotShapeTypeLiterals]]
    ELSE [out |-> "ok", val |-> type_str]

\* PenpotShapeElement.__init__ with its sanity check: get_all_parent_shapes
\* constructs the parent shape first, which checks its own parents and type,
\* then the literal of the marker itself is looked up
RECURSIVE NewShapeElement(_, _)
NewShapeElement(par, n) ==
    LET p == get_parent_shape(par, n)
        above == IF p = NoNode THEN [out |-> "ok", val |-> NoNode]
                 ELSE NewShapeElement(par, p)
        t == get_by_type_literal(shape_type[n])
    IN IF above.out # "ok" THEN above
       ELSE IF t.out # "ok" THEN t
       ELSE [out |-> "ok", val |-> PenpotShapeElement(par, n)]

\* find_all_penpot_shapes as the constructor of a page runs it: the scan
\* stops at the first marker whose construction fails
RECURSIVE FirstFailure(_, _, _)
FirstFailure(par, els, i) ==
    IF i > Len(els) THEN [out |-> "ok", val |-> NoNode]
    ELSE IF HasShapeMarker(els[i]) /\ NewShapeElement(par, els[i]).out # "ok"
         THEN NewShapeElement(par, els[i])
         ELSE FirstFailure(par, els, i + 1)

\* PenpotPageSVG.__init__: the index, or the error of the scan
PenpotPageSVG(par) ==
    LET failure == FirstFailure(par, Iter(par, Root), 1)
    IN IF failure.out # "ok" THEN failure
       ELSE [out |-> "ok", val |-> _reset_state(par)]

\* ------------------------------------------------------------- visibility
\* is_visible: the group's visibility attribute is not "hidden"
is_visible(hid, s) == ~hid[s]

\* set_visibility: drops the attribute, or sets it to "hidden"
set_visibility(hid, s, visibility) == [hid EXCEPT ![s] = ~visibility]

\* ------------------------------------------------------------ documents
ShapeTypes == {"group", "rect"}
PathStyles == {"plain", "opacity0", "fillnone"}

Labels ==
    {[tag |-> "g", marker |-> FALSE, type |-> "", style |-> ""]}
    \cup {[tag |-> "g", marker |-> TRUE, type |-> t, style |-> ""] : t \in ShapeTypes}
    \cup {[tag |-> "path", marker |-> FALSE, type |-> "", style |-> s] : s \in PathStyles}

\* The parsed documents of MaxNodes elements, numbered in document order:
\* element n hangs under the previous element or one of its ancestors.  The
\* root is <svg>; a <path> is a leaf of a plain content group.
RECURSIVE Docs(_)
Docs(n) ==
    IF n = 1
    THEN {[par |-> <<NoNode>>,
           lab |-> <<[tag |-> "svg", marker |-> FALSE, type |-> "", style |-> ""]>>]}
    ELSE UNION {
           {[par |-> Append(d.par, p), lab |-> Append(d.lab, l)] :
              <<p, l>> \in {x \in AncestorsOrSelf(d.par, n - 1) \X Labels :
                              /\ d.lab[x[1]].tag # "path"
                              /\ x[2].tag = "path" =>
                                   (d.lab[x[1]].tag = "g" /\ ~d.lab[x[1]].marker)}}
           : d \in Docs(n - 1)}

\* Elements that no shape operation ever reaches are left out: every element
\* below the root is a shape group, lies inside one, or wraps one.
Relevant(d) ==
    \A n \in 2..Len(d.par) :
        \/ d.lab[n].marker
        \/ \E a \in AncestorsOrSelf(d.par, n) : d.lab[a].marker
        \/ \E m \in 2..Len(d.par) : d.lab[m].marker /\ n \in AncestorsOrSelf(d.par, m)

Documents == {d \in Docs(MaxNodes) : Relevant(d)}

\* the parsed tree of document d
TreeOf(d) ==
    /\ tag = [n \in Nodes |-> d.lab[n].tag]
    /\ marker = [n \in Nodes |-> d.lab[n].marker]
    /\ style = [n \in Nodes |-> d.lab[n].style]
    /\ parent = [n \in Nodes |-> d.par[n]]

\* the page built on document d: the tree, the index of its construction and
\* the attributes no marker carries yet
PageOf(d) ==
    /\ TreeOf(d)
    /\ \E idx \in {_reset_state([n \in Nodes |-> d.par[n]])} :
          /\ shape_elements = idx.shape_elements
          /\ depth_to_shape_el = idx.depth_to_shape_el
          /\ shape_el_to_depth = idx.shape_el_to_depth
          /\ wrapper = idx.wrapper
    /\ view_box = [n \in Nodes |-> <<>>]
    /\ copy_view_box = [n \in Nodes |-> <<>>]
    /\ sessions = 0
    /\ ret = Ret("init", "ok", 0)

\* nothing extracted, no second page, no SVG code at hand
Idle == fragment = <<>> /\ trees = <<>> /\ pages = <<>> /\ svg_code = <<>>

\* a well-formed export: every shape has its own id and its own name
UniqueIds(d) == gid = [n \in Nodes |-> IF d.lab[n].marker THEN n ELSE 0]

UniqueNames(d) == name = [n \in Nodes |-> IF d.lab[n].marker THEN n ELSE 0]

Init ==
    \E d \in Documents :
        /\ PageOf(d)
        /\ Idle
        /\ UniqueIds(d)
        /\ UniqueNames(d)
        /\ shape_type = [n \in Nodes |-> d.lab[n].type]
        /\ clip_rect = [n \in Nodes |-> NoBox]
        /\ hidden = [n \in Nodes |-> FALSE]

\* -------------------------------------------------------------- actions
\* a rebuild that keeps the wrapper objects of the shapes that remain
SetIndexKeepingWrappers(idx) ==
    /\ shape_elements' = idx.shape_elements
    /\ depth_to_shape_el' = idx.depth_to_shape_el
    /\ shape_el_to_depth' = idx.shape_el_to_depth
    /\ wrapper' = [el \in DOMAIN idx.wrapper |->
                     IF el \in DOMAIN wrapper THEN wrapper[el] ELSE idx.wrapper[el]]

\* self._shape_elements, self._depth_to_shape_el, self._shape_el_to_depth = ...
SetIndex(idx) ==
    /\ shape_elements' = idx.shape_elements
    /\ depth_to_shape_el' = idx.depth_to_shape_el
    /\ shape_el_to_depth' = idx.shape_el_to_depth
    /\ wrapper' = idx.wrapper

\* PenpotPageSVG.remove_shape(shape_id)
remove_shape(id) ==
    LET rm == _remove_shape_from_tree(parent, shape_elements, id)
        idx == _reset_state(rm.par)
    IN /\ UNCHANGED <<doc, aux, hidden, copy_view_box, view_box, sessions>>
       /\ IF rm.out # "ok"
          THEN /\ UNCHANGED <<parent, index>>
               /\ ret' = Ret("remove_shape", rm.out, 0)
          ELSE /\ parent' = rm.par
               /\ SetIndex(idx)
               /\ ret' = Ret("remove_shape",
                             CheckRemoved(idx.shape_elements, <<id>>), 0)

\* PenpotPageSVG.remove_elements_with_no_visible_content()
remove_elements_with_no_visible_content ==
    LET shapes == SortedByDepthDesc(shape_elements, wrapper, MaxNodes)
        st == PruneLoop(shapes, shape_elements,
                        [par |-> parent, wr |-> wrapper, out |-> "ok",
                         removed_ids |-> <<>>])
        idx == _reset_state(st.par)
    IN /\ UNCHANGED <<doc, aux, hidden, copy_view_box, view_box, sessions>>
       /\ parent' = st.par
       /\ IF st.out # "ok"
          THEN /\ wrapper' = st.wr
               /\ UNCHANGED <<shape_elements, depth_to_shape_el, shape_el_to_depth>>
               /\ ret' = Ret("prune", st.out, st.removed_ids)
          ELSE /\ SetIndex(idx)
               /\ ret' = Ret("prune",
                             CheckRemoved(idx.shape_elements, st.removed_ids),
                             st.removed_ids)

\* a node-level removal that also rebuilds the index of the page
RemoveAndRebuild(s) ==
    /\ s \in Range(shape_elements)
    /\ UNCHANGED <<doc, aux, hidden, copy_view_box, view_box, sessions>>
    /\ IF parent[s] = NoNode
       THEN /\ UNCHANGED <<parent, index>>
            /\ ret' = Ret("remove", "AttributeError", 0)
       ELSE /\ parent' = Detach(parent, s)
            /\ SetIndex(_reset_state(Detach(parent, s)))
            /\ ret' = Ret("remove", "ok", 0)

\* PenpotShapeElement.remove() on a shape obtained from the page
remove(s) ==
    /\ s \in Range(shape_elements)
    /\ UNCHANGED <<doc, aux, hidden, copy_view_box, index, view_box, sessions>>
    /\ IF parent[s] = NoNode
       THEN /\ UNCHANGED parent
            /\ ret' = Ret("remove", "AttributeError", 0)
       ELSE /\ parent' = Detach(parent, s)
            /\ ret' = Ret("remove", "ok", 0)

\* shape.check_for_visible_content() on a shape obtained from the page
CheckForVisibleContent(s) ==
    /\ s \in Range(shape_elements)
    /\ LET c == check_for_visible_content(parent, wrapper[s])
       IN /\ wrapper' = [wrapper EXCEPT ![s] = c.w]
          /\ ret' = Ret("check_for_visible_content", "ok", c.res)
    /\ UNCHANGED <<doc, aux, hidden, copy_view_box, parent, shape_elements, depth_to_shape_el,
                   shape_el_to_depth, view_box, sessions>>

\* shape.child_shapes on a shape obtained from the page
ChildShapes(s) ==
    /\ s \in Range(shape_elements)
    /\ LET w == child_shapes(parent, wrapper[s])
       IN /\ wrapper' = [wrapper EXCEPT ![s] = w]
          /\ ret' = Ret("child_shapes", "ok", 0)
    /\ UNCHANGED <<doc, aux, hidden, copy_view_box, parent, shape_elements, depth_to_shape_el,
                   shape_el_to_depth, view_box, sessions>>

\* page.get_shape_elements_at_depth(depth)
GetShapeElementsAtDepth(depth) ==
    /\ LET r == get_shape_elements_at_depth(depth_to_shape_el, depth)
       IN /\ depth_to_shape_el' = r.d2s
          /\ ret' = Ret("get_shape_elements_at_depth", "ok", Len(r.val))
    /\ UNCHANGED <<doc, aux, hidden, copy_view_box, parent, shape_elements, shape_el_to_depth, wrapper,
                   view_box, sessions>>

\* shape.get_default_view_box(web_driver) on a shape obtained from the page
GetDefaultViewBox(s, web_driver, rendered) ==
    /\ s \in Range(shape_elements)
    /\ LET r == get_default_view_box(view_box, s, web_driver, rendered)
       IN /\ sessions + r.opened <= MaxSessions
          /\ view_box' = r.vb
          /\ sessions' = sessions + r.opened
          /\ ret' = Ret("get_default_view_box", r.out, r.val)
    /\ UNCHANGED <<doc, aux, hidden, copy_view_box, parent, index>>

\* shape.set_default_view_box(bbox=bbox)
SetDefaultViewBox(s, bbox) ==
    /\ s \in Range(shape_elements)
    /\ view_box' = [view_box EXCEPT ![s] = to_view_box_string(bbox)]
    /\ ret' = Ret("set_default_view_box", "ok", 0)
    /\ UNCHANGED <<doc, aux, hidden, copy_view_box, parent, index, sessions>>

\* shape.to_svg() with the default view box; held: the caller keeps the SVG
\* it is handed, otherwise only its view box is read
ToSvg(s, held) ==
    /\ s \in Range(shape_elements)
    /\ ret' = Ret("to_svg", to_svg(view_box, s).out, to_svg(view_box, s).val)
    /\ IF to_svg(view_box, s).out = "ok"
       THEN \E svg \in {from_root_element(parent, s)} :
               /\ IF held
                  THEN fragment' = [kind |-> "svg", of |-> s, copied |-> svg.copied,
                                    root |-> svg.root, par |-> svg.par, name |-> name,
                                    shape_type |-> shape_type,
                                    view_box |-> to_svg(view_box, s).val]
                  ELSE UNCHANGED fragment
               /\ parent' = svg.src
       ELSE UNCHANGED <<fragment, parent>>
    /\ UNCHANGED <<doc, trees, pages, svg_code, hidden, copy_view_box, index, view_box, sessions>>

\* PenpotMinimalShapeXML.from_shape(shape)
FromShape(s) ==
    /\ s \in Range(shape_elements)
    /\ \E xml \in {_remove_unwanted_elements(parent, s)} :
          /\ ret' = Ret("from_shape", xml.out, [of |-> s, retained |-> xml.retained])
          /\ fragment' = [kind |-> "xml", of |-> s, copied |-> xml.copied,
                          root |-> xml.root, par |-> xml.par, name |-> name,
                          shape_type |-> shape_type, view_box |-> NoBox]
          /\ parent' = xml.src
    /\ UNCHANGED <<doc, trees, pages, svg_code, hidden, copy_view_box, index, view_box, sessions>>

\* the elements of an extracted tree
ElsOf(svg) == Subtree(svg.par, svg.root)

FragmentEls == ElsOf(fragment)

\* a later edit of what was extracted: a shape of it is renamed; the
\* elements of a copy are its own
EditFragment(n, v) ==
    /\ DOMAIN fragment # {}
    /\ n \in FragmentEls /\ marker[n]
    /\ fragment' = [fragment EXCEPT !.name = set_penpot_attr(@, n, v)]
    /\ name' = IF fragment.copied THEN name ELSE set_penpot_attr(name, n, v)
    /\ ret' = Ret("edit_fragment", "ok", [shape |-> n, arg |-> v])
    /\ UNCHANGED <<tag, marker, gid, shape_type, style, clip_rect>>
    /\ UNCHANGED <<trees, pages, svg_code, hidden, parent, index, view_box, copy_view_box, sessions>>

\* PenpotPageSVG.from_string(svg.to_string()) on the extracted SVG: the index
\* of the page it builds
FromString ==
    /\ DOMAIN fragment # {}
    /\ fragment.kind = "svg"
    /\ \E dom \in {parse_string(to_string(fragment.par, fragment.root))} :
          ret' = Ret("from_string", "ok",
                     [of |-> fragment.of, dom |-> dom, page |-> _reset_state(dom)])
    /\ UNCHANGED <<doc, aux, hidden, parent, index, view_box, copy_view_box, sessions>>

\* page.retrieve_and_set_view_boxes_for_shape_elements(web_driver, selected);
\* selected = <<>> stands for None, rendered is what getBBox answers per element
RetrieveAndSetViewBoxes(selected, rendered) ==
    LET selected_shape_elements ==
            IF selected = <<>> THEN RefsOf("page", shape_elements) ELSE selected
        st == RetrieveLoop(selected_shape_elements, 1, rendered,
                           [vb |-> view_box, cvb |-> copy_view_box,
                            out |-> "ok", queries |-> 0])
    IN /\ UNCHANGED <<doc, aux, hidden, parent, index>>
       /\ IF non_contained_shape_ids(selected_shape_elements, shape_elements) # {}
          THEN /\ ret' = Ret("retrieve_and_set_view_boxes", "ValueError",
                             [queries |-> 0, selected |-> selected])
               /\ UNCHANGED <<view_box, copy_view_box, sessions>>
          ELSE /\ sessions + 1 <= MaxSessions
               /\ sessions' = sessions + 1
               /\ view_box' = st.vb
               /\ copy_view_box' = st.cvb
               /\ ret' = Ret("retrieve_and_set_view_boxes", st.out,
                             [queries |-> st.queries, selected |-> selected])

\* the operations of the page that change the tree
PageMutation ==
    \/ \E id \in Nodes : remove_shape(id)
    \/ remove_elements_with_no_visible_content

\* node-level removal, which any holder of a shape can call
NodeRemove == \E s \in Nodes : remove(s)

Query ==
    \/ \E s \in Nodes : CheckForVisibleContent(s)
    \/ \E s \in Nodes : ChildShapes(s)
    \/ \E d \in 0..MaxNodes - 1 : GetShapeElementsAtDepth(d)

ShapeNodes == {n \in Nodes : marker[n]}

\* what a caller may pass as selected_shape_elements: None, or up to
\* MaxSelected shapes, those of the page before those of the copy
Selections ==
    {<<>>} \cup
    {RefsOf("page", SetToSeq(own)) \o RefsOf("copy", SetToSeq(foreign)) :
        <<own, foreign>> \in {x \in (SUBSET ShapeNodes) \X (SUBSET ShapeNodes) :
            Cardinality(x[1]) + Cardinality(x[2]) \in 1..MaxSelected}}

BoxOp ==
    \/ \E s \in Nodes, wd \in {"none", "driver"}, r \in Boxes \cup {NoBox} :
          GetDefaultViewBox(s, wd, r)
    \/ \E s \in Nodes, b \in Boxes : SetDefaultViewBox(s, b)
    \/ \E s \in Nodes : ToSvg(s, FALSE)
    \/ \E selected \in Selections, rendered \in [ShapeNodes -> DomRects] :
          RetrieveAndSetViewBoxes(selected, rendered)

\* structural change through the page and through the shapes it hands out
Next == PageMutation \/ NodeRemove

Spec == Init /\ [][Next]_vars

\* the page's own operations and the queries on its shapes
NextPage == PageMutation \/ Query

SpecPage == Init /\ [][NextPage]_vars

\* what the export gives one shape: its type and the clip rectangle of its group
BoxKinds ==
    {[type |-> t, clip |-> c] : t \in {"rect", "frame"}, c \in {NoBox, ClipBox}}

\* bounding boxes of the shapes of a loaded page; the boxes do not depend on
\* the drawn content nor on how the groups are nested, so pages of up to
\* MaxBoxShapes shapes without paths, each group inside the one before and
\* the shapes innermost, are enough
InitBox ==
    \E d \in Documents :
        /\ \A n \in Nodes : d.lab[n].tag # "path" /\ d.lab[n].type \in {"", "rect"}
        /\ \A n \in Nodes : d.par[n] = n - 1
        /\ \A n \in Nodes \ {Root, MaxNodes} : d.lab[n].marker => d.lab[n + 1].marker
        /\ Cardinality({n \in Nodes : d.lab[n].marker}) <= MaxBoxShapes
        /\ PageOf(d)
        /\ Idle
        /\ UniqueIds(d)
        /\ UniqueNames(d)
        /\ \E kind \in [{n \in Nodes : d.lab[n].marker} -> BoxKinds] :
              /\ shape_type = [n \in Nodes |->
                                 IF d.lab[n].marker THEN kind[n].type ELSE ""]
              /\ clip_rect = [n \in Nodes |->
                                IF d.lab[n].marker THEN kind[n].clip ELSE NoBox]
        /\ hidden = [n \in Nodes |-> FALSE]

\* the boxes of a page from which shapes may have been removed
NextBox == BoxOp \/ \E id \in Nodes : remove_shape(id)

SpecBox == InitBox /\ [][NextBox]_vars

\* ------------------------------------------------------------- lookups
\* the wrapper a lookup hands out: the object held by the index
Found(r) == IF r.out = "ok" THEN wrapper[r.val] ELSE NoNode

GetShapeByName(n, require_unique) ==
    /\ ret' = Ret("get_shape_by_name",
                  get_shape_by_name(shape_elements, n, require_unique).out,
                  [arg |-> n, require_unique |-> require_unique,
                   shape |-> Found(get_shape_by_name(shape_elements, n, require_unique))])
    /\ UNCHANGED <<doc, aux, hidden, parent, index, view_box, copy_view_box, sessions>>

GetShapeById(id) ==
    /\ ret' = Ret("get_shape_by_id",
                  get_shape_by_id(shape_elements, id).out,
                  [arg |-> id, shape |-> Found(get_shape_by_id(shape_elements, id))])
    /\ UNCHANGED <<doc, aux, hidden, parent, index, view_box, copy_view_box, sessions>>

\* shape.name = n on a shape of the index
SetName(s, n) ==
    /\ s \in Range(shape_elements)
    /\ name' = set_penpot_attr(name, s, n)
    /\ ret' = Ret("set_name", "ok", [shape |-> s, arg |-> n, old |-> name[s]])
    /\ UNCHANGED <<tag, marker, gid, shape_type, style, clip_rect>>
    /\ UNCHANGED <<aux, hidden, parent, index, view_box, copy_view_box, sessions>>

\* Lookups only read the names and ids of the shapes and the order of the
\* index, so pages of shapes of one type without paths are enough; names and
\* ids may repeat, as in a malformed or hand-edited export
InitLookup ==
    \E d \in Documents :
        /\ \A n \in Nodes : d.lab[n].tag # "path" /\ d.lab[n].type \in {"", "rect"}
        /\ PageOf(d)
        /\ Idle
        /\ shape_type = [n \in Nodes |-> d.lab[n].type]
        /\ \E ids \in [{n \in Nodes : d.lab[n].marker} -> 1..MaxIds] :
              gid = [n \in Nodes |-> IF d.lab[n].marker THEN ids[n] ELSE 0]
        /\ \E names \in [{n \in Nodes : d.lab[n].marker} -> 1..MaxNames] :
              name = [n \in Nodes |-> IF d.lab[n].marker THEN names[n] ELSE 0]
        /\ clip_rect = [n \in Nodes |-> NoBox]
        /\ hidden = [n \in Nodes |-> FALSE]

NextLookup ==
    \/ \E n \in 1..MaxNames, require_unique \in BOOLEAN : GetShapeByName(n, require_unique)
    \/ \E id \in 1..MaxIds : GetShapeById(id)
    \/ \E s \in Nodes : ChildShapes(s)

SpecLookup == InitLookup /\ [][NextLookup]_vars

\* ------------------------------------------------------------- extraction
\* the groups without a marker and without children
LeafGroups(d) ==
    {n \in Nodes : /\ d.lab[n].tag = "g" /\ ~d.lab[n].marker
                   /\ \A c \in Nodes : d.par[c] # n}

\* pages whose shapes hold drawing elements at any place below them, the
\* shapes all with a view box or all without
InitExtract ==
    \E d \in Documents :
        /\ \A n \in Nodes : d.lab[n].tag # "path" /\ d.lab[n].type \in {"", "rect"}
        /\ \E paths \in SUBSET LeafGroups(d) :
              /\ tag = [n \in Nodes |-> IF n \in paths THEN "path" ELSE d.lab[n].tag]
              /\ style = [n \in Nodes |-> IF n \in paths THEN "plain" ELSE ""]
        /\ marker = [n \in Nodes |-> d.lab[n].marker]
        /\ parent = [n \in Nodes |-> d.par[n]]
        /\ \E idx \in {_reset_state([n \in Nodes |-> d.par[n]])} :
              /\ shape_elements = idx.shape_elements
              /\ depth_to_shape_el = idx.depth_to_shape_el
              /\ shape_el_to_depth = idx.shape_el_to_depth
              /\ wrapper = idx.wrapper
        /\ \E b \in {<<>>, to_view_box_string(BoundingBox(0, 0, 2, 1))} :
              view_box = [n \in Nodes |-> IF d.lab[n].marker THEN b ELSE <<>>]
        /\ copy_view_box = [n \in Nodes |-> <<>>]
        /\ sessions = 0
        /\ ret = Ret("init", "ok", 0)
        /\ Idle
        /\ UniqueIds(d)
        /\ UniqueNames(d)
        /\ shape_type = [n \in Nodes |-> d.lab[n].type]
        /\ clip_rect = [n \in Nodes |-> NoBox]
        /\ hidden = [n \in Nodes |-> FALSE]

NextExtract ==
    \/ \E s \in Nodes : ToSvg(s, TRUE)
    \/ \E s \in Nodes : FromShape(s)
    \/ \E n \in Nodes, v \in 1..MaxNames : EditFragment(n, v)
    \/ FromString

SpecExtract == InitExtract /\ [][NextExtract]_vars

\* ------------------------------------------------------------ SVG code
\* SVG code is read as the sequence of its id attributes and of the
\* references to ids; an identifier is a sequence of parts, the parts that
\* were appended to it joined by "_".

\* re.findall(r'id="(.*?)"', svg_code): every id attribute, in order, with
\* its repetitions
FindAllIds(code) ==
    LET attrs == SelectSeq(code, LAMBDA t : t.kind = "id")
    IN [i \in 1..Len(attrs) |-> attrs[i].value]

\* svg_code.replace(old, new) for one form of attribute or reference
Replace(code, old_kind, old, new_kind, new) ==
    [i \in 1..Len(code) |->
        IF code[i].kind = old_kind /\ code[i].value = old
        THEN [kind |-> new_kind, value |-> new]
        ELSE code[i]]

\* the loop of ensure_unique_ids_in_svg_code over the ids found; the i-th
\* shortuuid.uuid() is written i, different from every other and from every
\* part of an identifier of the input; the quoted url comes back with its
\* quote behind the bracket
RECURSIVE UniqueIdsLoop(_, _, _)
UniqueIdsLoop(ids, i, code) ==
    IF i > Len(ids) THEN code
    ELSE LET identifier == ids[i]
             new_id == Append(identifier, i)
         IN UniqueIdsLoop(ids, i + 1,
                Replace(Replace(Replace(Replace(code,
                    "id", identifier, "id", new_id),
                    "url", identifier, "url", new_id),
                    "url_quoted", identifier, "url_misquoted", new_id),
                    "href", identifier, "href", new_id))

ensure_unique_ids_in_svg_code(code) == UniqueIdsLoop(FindAllIds(code), 1, code)

\* ensure_unique_ids_in_svg_code(svg_code) on code at hand
EnsureUniqueIds ==
    /\ ret.op = "init"
    /\ svg_code' = ensure_unique_ids_in_svg_code(svg_code)
    /\ ret' = Ret("ensure_unique_ids_in_svg_code", "ok", [input |-> svg_code])
    /\ UNCHANGED <<doc, fragment, trees, pages, hidden, parent, index, view_box, copy_view_box, sessions>>

\* what generated code holds: id attributes and references, written with
\* identifiers of one part
CodeTokens ==
    {[kind |-> k, value |-> <<v>>] :
        k \in {"id", "url", "url_quoted", "href"}, v \in 1..MaxIdValues}

RECURSIVE Codes(_)
Codes(n) ==
    IF n = 0 THEN {<<>>}
    ELSE Codes(n - 1) \cup {Append(c, t) : c \in Codes(n - 1), t \in CodeTokens}

\* generated SVG code of up to MaxCodeLen ids and references; the function
\* reads no page, the page at hand is a document of one shape
InitUnique ==
    /\ \E d \in {CHOOSE x \in Documents :
                     /\ \A n \in Nodes : x.par[n] = n - 1
                     /\ \A n \in Nodes : x.lab[n].marker <=> n = MaxNodes
                     /\ x.lab[MaxNodes].type = "rect"} :
          /\ PageOf(d)
          /\ UniqueIds(d)
          /\ UniqueNames(d)
          /\ shape_type = [n \in Nodes |-> d.lab[n].type]
    /\ clip_rect = [n \in Nodes |-> NoBox]
    /\ hidden = [n \in Nodes |-> FALSE]
    /\ fragment = <<>> /\ trees = <<>> /\ pages = <<>>
    /\ svg_code \in Codes(MaxCodeLen)

NextUnique == EnsureUniqueIds

SpecUnique == InitUnique /\ [][NextUnique]_vars

\* ------------------------------------------------------- pages of a document
\* trees holds the document objects: trees[1] is the parsed document, the
\* others are what constructors made of it; a page names its tree by dom.

\* a constructor that keeps the document it is given
SvgInitShared(heap, dom) == [trees |-> heap, dom |-> dom]

\* SVG.__init__(dom): dom = deepcopy(dom); self.dom = dom
SvgInit(heap, dom) == [trees |-> Append(heap, heap[dom]), dom |-> Len(heap) + 1]

\* the fields of a page: its tree and the index _reset_state built
PageRecord(dom, idx) ==
    [dom |-> dom, shape_elements |-> idx.shape_elements,
     depth_to_shape_el |-> idx.depth_to_shape_el,
     shape_el_to_depth |-> idx.shape_el_to_depth, wrapper |-> idx.wrapper]

\* PenpotPageSVG(dom) on the parsed document
NewPage ==
    /\ Len(pages) < MaxPages
    /\ \E svg \in {SvgInit(trees, 1)} :
          /\ trees' = svg.trees
          /\ pages' = Append(pages, PageRecord(svg.dom, _reset_state(svg.trees[svg.dom].par)))
    /\ ret' = Ret("PenpotPageSVG", "ok", [page |-> Len(pages) + 1])
    /\ UNCHANGED <<doc, fragment, svg_code, hidden, parent, index, view_box, copy_view_box, sessions>>

\* pages[k].remove_shape(id)
PageRemoveShape(k, id) ==
    /\ k \in 1..Len(pages)
    /\ \E rm \in {_remove_shape_from_tree(trees[pages[k].dom].par, pages[k].shape_elements, id)} :
          IF rm.out # "ok"
          THEN /\ UNCHANGED <<trees, pages>>
               /\ ret' = Ret("remove_shape", rm.out, [page |-> k])
          ELSE \E idx \in {_reset_state(rm.par)} :
                  /\ trees' = [trees EXCEPT ![pages[k].dom].par = rm.par]
                  /\ pages' = [pages EXCEPT ![k] = PageRecord(@.dom, idx)]
                  /\ ret' = Ret("remove_shape", CheckRemoved(idx.shape_elements, <<id>>),
                                [page |-> k])
    /\ UNCHANGED <<doc, fragment, svg_code, hidden, parent, index, view_box, copy_view_box, sessions>>

\* pages[k].remove_elements_with_no_visible_content()
PagePrune(k) ==
    /\ k \in 1..Len(pages)
    /\ \E st \in {PruneLoop(SortedByDepthDesc(pages[k].shape_elements, pages[k].wrapper, MaxNodes),
                             pages[k].shape_elements,
                             [par |-> trees[pages[k].dom].par, wr |-> pages[k].wrapper,
                              out |-> "ok", removed_ids |-> <<>>])} :
          /\ trees' = [trees EXCEPT ![pages[k].dom].par = st.par]
          /\ IF st.out # "ok"
             THEN /\ pages' = [pages EXCEPT ![k].wrapper = st.wr]
                  /\ ret' = Ret("prune", st.out, [page |-> k])
             ELSE \E idx \in {_reset_state(st.par)} :
                     /\ pages' = [pages EXCEPT ![k] = PageRecord(@.dom, idx)]
                     /\ ret' = Ret("prune", CheckRemoved(idx.shape_elements, st.removed_ids),
                                   [page |-> k])
    /\ UNCHANGED <<doc, fragment, svg_code, hidden, parent, index, view_box, copy_view_box, sessions>>

\* shape.name = n on a shape of pages[k]
PageSetName(k, s, n) ==
    /\ k \in 1..Len(pages)
    /\ s \in Range(pages[k].shape_elements)
    /\ trees' = [trees EXCEPT ![pages[k].dom].name = set_penpot_attr(@, s, n)]
    /\ ret' = Ret("set_name", "ok", [page |-> k])
    /\ UNCHANGED <<doc, pages, fragment, svg_code, hidden, parent, index, view_box, copy_view_box, sessions>>

\* shape.set_default_view_box(bbox) on a shape of pages[k]
PageSetDefaultViewBox(k, s, bbox) ==
    /\ k \in 1..Len(pages)
    /\ s \in Range(pages[k].shape_elements)
    /\ trees' = [trees EXCEPT ![pages[k].dom].view_box =
                                 [@ EXCEPT ![s] = to_view_box_string(bbox)]]
    /\ ret' = Ret("set_default_view_box", "ok", [page |-> k])
    /\ UNCHANGED <<doc, pages, fragment, svg_code, hidden, parent, index, view_box, copy_view_box, sessions>>

\* a parsed document of which no page was built yet; what one page does to
\* its tree does not depend on how the groups are nested, so documents of up
\* to MaxBoxShapes shapes without paths, each group inside the one before
\* and the shapes innermost, are enough
InitPages ==
    \E d \in Documents :
        /\ \A n \in Nodes : d.lab[n].tag # "path" /\ d.lab[n].type \in {"", "rect"}
        /\ \A n \in Nodes : d.par[n] = n - 1
        /\ \A n \in Nodes \ {Root, MaxNodes} : d.lab[n].marker => d.lab[n + 1].marker
        /\ Cardinality({n \in Nodes : d.lab[n].marker}) <= MaxBoxShapes
        /\ PageOf(d)
        /\ UniqueIds(d)
        /\ UniqueNames(d)
        /\ shape_type = [n \in Nodes |-> d.lab[n].type]
        /\ clip_rect = [n \in Nodes |-> NoBox]
        /\ hidden = [n \in Nodes |-> FALSE]
        /\ trees = <<[par |-> [n \in Nodes |-> d.par[n]],
                      name |-> [n \in Nodes |-> IF d.lab[n].marker THEN n ELSE 0],
                      view_box |-> [n \in Nodes |-> <<>>]]>>
        /\ pages = <<>>
        /\ fragment = <<>>
        /\ svg_code = <<>>

NextPages ==
    \/ NewPage
    \/ \E k \in 1..MaxPages, id \in Nodes : PageRemoveShape(k, id)
    \/ \E k \in 1..MaxPages : PagePrune(k)
    \/ \E k \in 1..MaxPages, s \in Nodes, n \in 1..MaxNames : PageSetName(k, s, n)
    \/ \E k \in 1..MaxPages, s \in Nodes : PageSetDefaultViewBox(k, s, BoundingBox(0, 0, 2, 1))

SpecPages == InitPages /\ [][NextPages]_vars

\* renaming: pages whose shapes have ids of their own and any names
InitRename ==
    \E d \in Documents :
        /\ \A n \in Nodes : d.lab[n].tag # "path" /\ d.lab[n].type \in {"", "rect"}
        /\ PageOf(d)
        /\ Idle
        /\ shape_type = [n \in Nodes |-> d.lab[n].type]
        /\ UniqueIds(d)
        /\ \E names \in [{n \in Nodes : d.lab[n].marker} -> 1..MaxNames] :
              name = [n \in Nodes |-> IF d.lab[n].marker THEN names[n] ELSE 0]
        /\ clip_rect = [n \in Nodes |-> NoBox]
        /\ hidden = [n \in Nodes |-> FALSE]

NextRename ==
    \/ \E s \in Nodes, n \in 1..MaxNames : SetName(s, n)
    \/ \E n \in 1..MaxNames, require_unique \in BOOLEAN : GetShapeByName(n, require_unique)

SpecRename == InitRename /\ [][NextRename]_vars

\* ---------------------------------------------------- loading a document
\* the index before a page exists
NoIndex ==
    [shape_elements |-> <<>>, depth_to_shape_el |-> EmptyFn,
     shape_el_to_depth |-> EmptyFn, wrapper |-> EmptyFn]

\* PenpotPageSVG(dom) on the parsed document
LoadPage ==
    /\ ret.op = "parsed"
    /\ LET page == PenpotPageSVG(parent)
       IN IF page.out = "ok"
          THEN /\ SetIndex(page.val)
               /\ ret' = Ret("PenpotPageSVG", "ok", 0)
          ELSE /\ ret' = Ret("PenpotPageSVG", page.out, page.val)
               /\ UNCHANGED index
    /\ UNCHANGED <<doc, aux, hidden, parent, view_box, copy_view_box, sessions>>

\* PenpotShapeElement(el) on a marker of the document
NewShape(s) ==
    /\ HasShapeMarker(s)
    /\ LET shape == NewShapeElement(parent, s)
       IN ret' = Ret("PenpotShapeElement", shape.out,
                     IF shape.out = "ok" THEN [shape |-> shape.val] ELSE shape.val)
    /\ UNCHANGED <<doc, aux, hidden, parent, index, view_box, copy_view_box, sessions>>

\* a parsed document in which some markers carry a literal that is not a
\* shape type; no page has been built on it yet
InitLoad ==
    \E d \in Documents :
        /\ \A n \in Nodes : d.lab[n].tag # "path" /\ d.lab[n].type \in {"", "rect"}
        /\ TreeOf(d)
        /\ Idle
        /\ UniqueIds(d)
        /\ UniqueNames(d)
        /\ \E unknown \in SUBSET {n \in Nodes : d.lab[n].marker} :
              shape_type = [n \in Nodes |->
                              IF n \in unknown THEN "blob" ELSE d.lab[n].type]
        /\ clip_rect = [n \in Nodes |-> NoBox]
        /\ hidden = [n \in Nodes |-> FALSE]
        /\ shape_elements = NoIndex.shape_elements
        /\ depth_to_shape_el = NoIndex.depth_to_shape_el
        /\ shape_el_to_depth = NoIndex.shape_el_to_depth
        /\ wrapper = NoIndex.wrapper
        /\ view_box = [n \in Nodes |-> <<>>]
        /\ copy_view_box = [n \in Nodes |-> <<>>]
        /\ sessions = 0
        /\ ret = Ret("parsed", "ok", 0)

NextLoad ==
    \/ LoadPage
    \/ \E s \in Nodes : NewShape(s)
    \/ \E s \in Nodes : ChildShapes(s)

SpecLoad == InitLoad /\ [][NextLoad]_vars

\* ------------------------------------------------------------- visibility
IsVisible(s) ==
    /\ s \in Range(shape_elements)
    /\ ret' = Ret("is_visible", "ok", is_visible(hidden, s))
    /\ UNCHANGED <<doc, aux, hidden, parent, index, view_box, copy_view_box, sessions>>

SetVisibility(s, visibility) ==
    /\ s \in Range(shape_elements)
    /\ hidden' = set_visibility(hidden, s, visibility)
    /\ ret' = Ret("set_visibility", "ok", 0)
    /\ UNCHANGED <<doc, aux, parent, index, view_box, copy_view_box, sessions>>

\* the shapes of a page, hidden and shown, and what they report
NextVis ==
    \/ \E s \in Nodes : IsVisible(s)
    \/ \E s \in Nodes, visibility \in BOOLEAN : SetVisibility(s, visibility)
    \/ \E s \in Nodes : CheckForVisibleContent(s)

SpecVis == Init /\ [][NextVis]_vars

\* ------------------------------------------------ the tree, declaratively
\* What the claims below measure the code against: sets read off the tree.
ProperAncestors(par, n) == AncestorsOrSelf(par, par[n])

Attached(par, n) == Root \in AncestorsOrSelf(par, n)

\* the groups above n that directly contain a shape marker
ShapeAncestors(par, n) ==
    {a \in ProperAncestors(par, n) : tag[a] = "g" /\ marker[a]}

NearestShapeAncestor(par, n) ==
    IF ShapeAncestors(par, n) = {} THEN NoNode
    ELSE CHOOSE a \in ShapeAncestors(par, n) :
            \A x \in ShapeAncestors(par, n) : x \in AncestorsOrSelf(par, a)

ShapeDescendants(par, p) == {c \in ShapeNodes : p \in ProperAncestors(par, c)}

\* the index lists exactly the shapes attached to the document
NoStaleIndex ==
    Range(shape_elements) = {n \in ShapeNodes : Attached(parent, n)}

DirectChildren(s) == Els(get_direct_children_shapes(parent, s))

AtDepth(n) == get_shape_elements_at_depth(depth_to_shape_el, n).val

PageRemovalReturned == ret.op \in {"remove_shape", "prune"} /\ ret.out = "ok"

\* ------------------------------------------------------------------ C1
\* C1: in every page state reached by construction or by remove_shape /
\* remove_elements_with_no_visible_content, every indexed shape S with
\* get_parent_shape() = P is among P.get_direct_children_shapes(), and every
\* C among S.get_direct_children_shapes() has get_parent_shape() = S.
C1_Symmetry ==
    \A s \in Range(shape_elements) :
        /\ get_parent_shape(parent, s) # NoNode =>
              s \in Range(DirectChildren(get_parent_shape(parent, s)))
        /\ \A c \in Range(DirectChildren(s)) : get_parent_shape(parent, c) = s

\* a page after a removal in which a shape's parent is found across a wrapper
C1_Witness ==
    /\ PageRemovalReturned
    /\ \E s \in Range(shape_elements) :
          /\ get_parent_shape(parent, s) \notin {NoNode, parent[s]}
          /\ s \in Range(DirectChildren(get_parent_shape(parent, s)))

\* ------------------------------------------------------------------ C2
\* C2: get_parent_shape() of a shape is the shape of the nearest proper
\* ancestor of its containing group that is a <g> directly containing a
\* marker, however many marker-less elements lie between; it is none exactly
\* when no ancestor up to the root is such a group.
C2_ParentSkipsWrappers ==
    \A s \in ShapeNodes :
        IF ShapeAncestors(parent, s) = {}
        THEN get_parent_shape(parent, s) = NoNode
        ELSE /\ get_parent_shape(parent, s) \in ShapeAncestors(parent, s)
             /\ \A c \in ShapeAncestors(parent, s) :
                   c \in AncestorsOrSelf(parent, get_parent_shape(parent, s))

\* a shape with two shape groups above it and a wrapper group directly above
C2_Witness ==
    \E s \in ShapeNodes :
        /\ Cardinality(ShapeAncestors(parent, s)) >= 2
        /\ parent[s] \notin ShapeAncestors(parent, s)
        /\ get_parent_shape(parent, s) = NearestShapeAncestor(parent, s)

\* ------------------------------------------------------------------ C3
\* the page holds exactly the shapes a -> b -> c, each the parent of the next
ChainDocument(a, b, c) ==
    /\ shape_elements = <<a, b, c>>
    /\ ShapeAncestors(parent, a) = {}
    /\ ShapeAncestors(parent, b) = {a}
    /\ ShapeAncestors(parent, c) = {a, b}

\* C3: get_direct_children_shapes() of P is exactly the shapes below P's
\* containing group whose nearest shape ancestor is P (not P, no grandchild),
\* in document order; in the document A -> B -> C,
\* get_shape_elements_at_depth(1) = [B], C.get_parent_shape() = B and
\* A.get_direct_children_shapes() = [B].
C3_DirectChildren ==
    /\ \A p \in ShapeNodes :
          /\ Range(DirectChildren(p)) =
                {c \in ShapeDescendants(parent, p) :
                    NearestShapeAncestor(parent, c) = p}
          /\ \A i, j \in 1..Len(DirectChildren(p)) :
                i < j => DirectChildren(p)[i] < DirectChildren(p)[j]
    /\ \A a, b, c \in Nodes :
          ChainDocument(a, b, c) =>
              /\ AtDepth(1) = <<b>>
              /\ get_parent_shape(parent, c) = b
              /\ DirectChildren(a) = <<b>>

\* the document A -> B -> C
C3_Witness ==
    \E a, b, c \in Nodes :
        /\ ChainDocument(a, b, c)
        /\ DirectChildren(a) = <<b>>
        /\ Els(get_all_children_shapes(parent, a)) = <<b, c>>

\* ------------------------------------------------------------------ C4
\* C4: after construction and after every rebuild,
\* get_shape_elements_at_depth(n) is the list, in document order, of the
\* indexed shapes with exactly n logical ancestors; the depth-0 bucket is the
\* set of shapes without parent shape; a depth without shape gives the empty
\* list and no bucket exists for it.
C4_DepthIndex ==
    /\ \A n \in 0..MaxNodes :
          AtDepth(n) = SelectSeq(shape_elements, LAMBDA s :
                          Cardinality(ShapeAncestors(parent, s)) = n)
    /\ Range(AtDepth(0)) =
          {s \in Range(shape_elements) : get_parent_shape(parent, s) = NoNode}
    /\ \A d \in DOMAIN depth_to_shape_el : depth_to_shape_el[d] # <<>>

\* an empty depth was asked for on a rebuilt index that has two levels
C4_Witness ==
    /\ ret.op = "get_shape_elements_at_depth" /\ ret.val = 0
    /\ DOMAIN depth_to_shape_el = {0, 1}
    /\ \E n \in ShapeNodes : ~Attached(parent, n)

\* ------------------------------------------------------------------ C5
\* C5: when remove_shape(id) returns on a page whose index is consistent,
\* get_shape_by_id(id) raises not-found and the number of indexed shapes has
\* gone down by exactly 1 + the number of shape descendants of the removed
\* shape; remove_shape never returns normally while the id still resolves,
\* and the check after the rebuild answers AssertionError for every id that
\* resolves.
C5_RemoveShape ==
    [][\A id \in Nodes :
          (ret'.op = "remove_shape" /\ remove_shape(id)) =>
             /\ (NoStaleIndex /\ ret'.out = "ok") =>
                   /\ get_shape_by_id(shape_elements', id).out = "KeyError"
                   /\ Len(shape_elements') = Len(shape_elements) -
                         (1 + Cardinality(ShapeDescendants(parent,
                                 get_shape_by_id(shape_elements, id).val)))
             /\ get_shape_by_id(shape_elements', id).out = "ok" =>
                   /\ ret'.out # "ok"
                   /\ CheckRemoved(shape_elements', <<id>>) = "AssertionError"]_vars

\* remove_shape has returned after detaching a shape together with shapes
\* below it, and shapes remain
C5_Witness ==
    /\ ret.op = "remove_shape" /\ ret.out = "ok"
    /\ NoStaleIndex
    /\ shape_elements # <<>>
    /\ \E s \in ShapeNodes :
          /\ parent[s] = NoNode
          /\ ShapeDescendants(parent, s) # {}
          /\ get_shape_by_id(shape_elements, shape_id(s)).out = "KeyError"

\* ------------------------------------------------------------------ C6
\* C6: after construction and any sequence of remove_shape,
\* remove_elements_with_no_visible_content and queries on the page's shapes,
\* the flat shape list, the depth buckets and the shape-to-depth map equal a
\* fresh full scan of the current tree, and every shape of the index carries
\* a cached depth and, once filled, a cached child list that equal their
\* recomputation on the current tree.
C6_IndexConsistency ==
    /\ shape_elements = Els(find_all_penpot_shapes(parent, Root).shapes)
    /\ depth_to_shape_el = find_all_penpot_shapes(parent, Root).depth_to
    /\ shape_el_to_depth = find_all_penpot_shapes(parent, Root).to_depth
    /\ DOMAIN wrapper = Range(shape_elements)
    /\ \A s \in Range(shape_elements) :
          /\ wrapper[s].el = s
          /\ wrapper[s].depth_in_shapes = Len(get_all_parent_shapes(parent, s))
          /\ wrapper[s].child_shapes # <<>> =>
                Els(wrapper[s].child_shapes) = DirectChildren(s)

\* a shape of the rebuilt index has filled its child list after a removal
C6_Witness ==
    /\ ret.op = "child_shapes"
    /\ \E n \in ShapeNodes : ~Attached(parent, n)
    /\ \E s \in Range(shape_elements) : wrapper[s].child_shapes # <<>>

\* ------------------------------------------------------------------ C7
\* C7 as claimed: in every state reachable by the public operations of the
\* page and of its shapes, PenpotShapeElement.remove() included, every shape
\* the index lists is attached to the document tree and every shape marker
\* of the tree is listed.
C7_NoStaleIndexReachable ==
    /\ \A s \in Range(shape_elements) : Attached(parent, s)
    /\ \A n \in ShapeNodes : Attached(parent, n) => n \in Range(shape_elements)

\* C7, amended: whenever remove_shape or
\* remove_elements_with_no_visible_content has returned normally, every
\* shape the index lists is attached to the document tree and every shape
\* marker of the tree is listed, whatever node-level removals came before.
C7_NoStaleIndexAfterPageRemoval ==
    PageRemovalReturned => NoStaleIndex

\* a page removal has returned after a node-level removal had left the index
\* stale: two subtrees are detached, the index lists what is attached
C7_Witness ==
    /\ PageRemovalReturned
    /\ NoStaleIndex
    /\ Cardinality({n \in ShapeNodes : n # Root /\ parent[n] = NoNode}) >= 2

DeepestBucket == AtDepth(max_shape_depth(depth_to_shape_el))

\* what C9 says of every deepest-bucket shape, whatever else the page holds
LeafDepthShape(L) ==
    /\ DirectChildren(L) = <<>>
    /\ get_all_children_shapes(parent, L) = <<>>
    /\ get_parent_shape(parent, L) # NoNode =>
          L \in Range(Els(get_all_children_shapes(parent,
                                                  get_parent_shape(parent, L))))
    /\ get_parent_shape(parent, L) = NoNode => L \in Range(AtDepth(0))

\* C9 as claimed: every shape L of the deepest bucket has no direct child
\* and no descendant shape, is among its parent's descendants, has a parent
\* unless it is a root, and is a root only in a single-shape document.
C9_LeafRootOnlyInSingleShapeDocument ==
    \A L \in Range(DeepestBucket) :
        /\ LeafDepthShape(L)
        /\ get_parent_shape(parent, L) = NoNode => Len(shape_elements) = 1

\* C9, amended: every shape L of the deepest bucket has no direct child and
\* no descendant shape, is among its parent's descendants, has a parent
\* unless it is a root, and is a root exactly when max_shape_depth is 0, that
\* is when no shape of the page lies inside another.
C9_LeafDepthShapes ==
    \A L \in Range(DeepestBucket) :
        /\ LeafDepthShape(L)
        /\ get_parent_shape(parent, L) = NoNode <=>
              max_shape_depth(depth_to_shape_el) = 0

\* after a removal, the deepest bucket lies below the roots and its shapes
\* reach their parent across a wrapper
C9_Witness ==
    /\ PageRemovalReturned
    /\ max_shape_depth(depth_to_shape_el) >= 1
    /\ DeepestBucket # <<>>
    /\ \A L \in Range(DeepestBucket) :
          get_parent_shape(parent, L) \notin {NoNode, parent[L]}

\* ----------------------------------------------------------------- C10
\* C10: get_default_view_box() without a renderer on a shape that has no
\* explicit bounding box raises ValueError, writes no bounding box on any
\* node and opens no renderer session.
C10_NoBoundsNoRenderer ==
    [][\A s \in Nodes, r \in Boxes \cup {NoBox} :
          (/\ _default_view_box(view_box, s) = NoBox
           /\ ret'.op = "get_default_view_box"
           /\ GetDefaultViewBox(s, "none", r))
             => /\ ret'.out = "ValueError"
                /\ view_box' = view_box
                /\ sessions' = sessions]_vars

\* the call was rejected on a page where another shape has a box and no
\* renderer was ever opened
C10_Witness ==
    /\ ret.op = "get_default_view_box" /\ ret.out = "ValueError"
    /\ sessions = 0
    /\ \E s, t \in Range(shape_elements) : view_box[s] = <<>> /\ view_box[t] # <<>>

\* ----------------------------------------------------------------- C11
\* C11: set_default_view_box(bbox=b) leaves b as the shape's explicit box;
\* while a shape has an explicit box, get_default_view_box() with or without
\* a renderer returns that box and opens no renderer session, to_svg() with
\* the default view box gives a document whose view box is that box, and the
\* box stays as it is until a call sets the box again.
C11_ExplicitBoxAuthoritative ==
    [][\A s \in Nodes :
          /\ \A b \in Boxes :
                (ret'.op = "set_default_view_box" /\ SetDefaultViewBox(s, b))
                   => _default_view_box(view_box', s) = b
          /\ view_box[s] # <<>> =>
                /\ \A wd \in {"none", "driver"}, r \in Boxes \cup {NoBox} :
                      (ret'.op = "get_default_view_box" /\ GetDefaultViewBox(s, wd, r))
                         => /\ ret'.out = "ok"
                            /\ ret'.val = _default_view_box(view_box, s)
                            /\ sessions' = sessions
                /\ (ret'.op = "to_svg" /\ ToSvg(s, FALSE))
                      => /\ ret'.out = "ok"
                         /\ ret'.val = _default_view_box(view_box, s)
                /\ ret'.op \notin {"set_default_view_box", "retrieve_and_set_view_boxes"}
                      => view_box'[s] = view_box[s]]_vars

\* a box was returned on a page where no renderer session was ever opened
C11_Witness ==
    /\ ret.op \in {"get_default_view_box", "to_svg"} /\ ret.out = "ok"
    /\ sessions = 0
    /\ \E s \in Range(shape_elements) :
          view_box[s] # <<>> /\ ret.val = _default_view_box(view_box, s)

\* ----------------------------------------------------------------- C12
\* C12: for a shape of type FRAME without explicit box whose clip path gives
\* a clip rectangle, get_default_view_box() returns that rectangle, stores it
\* as the explicit box and opens no renderer session, with or without a
\* renderer argument.
C12_ClipRectBeforeRenderer ==
    [][\A s \in Nodes, wd \in {"none", "driver"}, r \in Boxes \cup {NoBox} :
          (/\ shape_type[s] = "frame"
           /\ get_clip_rect(s) # NoBox
           /\ view_box[s] = <<>>
           /\ ret'.op = "get_default_view_box"
           /\ GetDefaultViewBox(s, wd, r))
             => /\ ret'.out = "ok"
                /\ ret'.val = get_clip_rect(s)
                /\ _default_view_box(view_box', s) = get_clip_rect(s)
                /\ sessions' = sessions]_vars

\* ----------------------------------------------------------------- C13
\* C13: retrieve_and_set_view_boxes_for_shape_elements on a page whose
\* shapes all carry an explicit box leaves every box as it was, opens no
\* renderer session and issues no getBBox query.
C13_BatchIdempotentOnResolvedPage ==
    [][(/\ \A s \in Range(shape_elements) : view_box[s] # <<>>
        /\ ret'.op = "retrieve_and_set_view_boxes"
        /\ ret'.out = "ok")
          => /\ view_box' = view_box
             /\ sessions' = sessions
             /\ ret'.val.queries = 0]_vars

\* ----------------------------------------------------------------- C14
\* the selection holds shapes of this page only
OwnSelection(selected) ==
    \A i \in 1..Len(selected) :
        selected[i].page = "page" /\ selected[i].el \in Range(shape_elements)

SelectedEls(selected) ==
    IF selected = <<>> THEN Range(shape_elements)
    ELSE {selected[i].el : i \in 1..Len(selected)}

\* C14: when retrieve_and_set_view_boxes_for_shape_elements returns for the
\* whole page or for a list of shapes of the page, every selected shape has
\* an explicit box, so get_default_view_box() without renderer succeeds on it
\* with width >= 0 and height >= 0; a selected FRAME with a clip rectangle
\* has exactly that rectangle; the other shapes keep their box state.
C14_BatchPostcondition ==
    [][(/\ ret'.op = "retrieve_and_set_view_boxes"
        /\ ret'.out = "ok"
        /\ OwnSelection(ret'.val.selected))
          => /\ \A s \in SelectedEls(ret'.val.selected) :
                   /\ get_default_view_box(view_box', s, "none", NoBox).out = "ok"
                   /\ get_default_view_box(view_box', s, "none", NoBox).val.width >= 0
                   /\ get_default_view_box(view_box', s, "none", NoBox).val.height >= 0
                   /\ (shape_type[s] = "frame" /\ get_clip_rect(s) # NoBox)
                         => _default_view_box(view_box', s) = get_clip_rect(s)
             /\ \A s \in Nodes \ SelectedEls(ret'.val.selected) :
                   view_box'[s] = view_box[s]]_vars

\* the batch has queried the renderer and returned on a page where a frame
\* has its clip rectangle and a shape holds a box other than its clip rectangle
C14_Witness ==
    /\ ret.op = "retrieve_and_set_view_boxes" /\ ret.out = "ok"
    /\ ret.val.queries >= 1
    /\ \E s \in Range(shape_elements) :
          /\ shape_type[s] = "frame"
          /\ get_clip_rect(s) # NoBox
          /\ _default_view_box(view_box, s) = get_clip_rect(s)
    /\ \E s \in Range(shape_elements) :
          view_box[s] # <<>> /\ _default_view_box(view_box, s) # get_clip_rect(s)

\* ----------------------------------------------------------------- C15
\* C15: when the collection passed to
\* retrieve_and_set_view_boxes_for_shape_elements contains a shape that is
\* not one of this page's indexed shapes, the call raises before a renderer
\* session is opened and before a box is written on any shape.
C15_SubsetValidatedFirst ==
    [][(/\ ret'.op = "retrieve_and_set_view_boxes"
        /\ ~OwnSelection(ret'.val.selected))
          => /\ ret'.out = "ValueError"
             /\ sessions' = sessions
             /\ view_box' = view_box
             /\ copy_view_box' = copy_view_box]_vars

\* ----------------------------------------------------------------- C16
\* the indexed shapes named n, and the first of them in document order
Named(n) == {s \in Range(shape_elements) : name[s] = n}

FirstInDocumentOrder(S) == CHOOSE s \in S : \A t \in S : s <= t

\* C16: when two or more indexed shapes are named n, get_shape_by_name(n)
\* with require_unique raises the ambiguity error (RuntimeError, not the
\* KeyError of not-found), and with require_unique=False it returns the
\* first shape named n in document order.
C16_NameAmbiguity ==
    [][(/\ ret'.op = "get_shape_by_name"
        /\ Cardinality(Named(ret'.val.arg)) >= 2)
          => IF ret'.val.require_unique
             THEN ret'.out = "RuntimeError" /\ ret'.out # "KeyError"
             ELSE /\ ret'.out = "ok"
                  /\ ret'.val.shape.el = FirstInDocumentOrder(Named(ret'.val.arg))]_vars

\* a lookup without uniqueness returned the first of several shapes of that
\* name, which are not the first shapes of the page
C16_Witness ==
    /\ ret.op = "get_shape_by_name"
    /\ ret.out = "ok"
    /\ ~ret.val.require_unique
    /\ Cardinality(Named(ret.val.arg)) >= 2
    /\ ret.val.shape.el = FirstInDocumentOrder(Named(ret.val.arg))
    /\ ret.val.shape.el # shape_elements[1]

\* ----------------------------------------------------------------- C17
\* C17: get_shape_by_name(n) for a name no indexed shape carries raises the
\* not-found error KeyError, with require_unique and without.
C17_NameNotFound ==
    [][(/\ ret'.op = "get_shape_by_name"
        /\ Named(ret'.val.arg) = {})
          => ret'.out = "KeyError"]_vars

\* ----------------------------------------------------------------- C18
\* the indexed shapes whose group has id i
WithId(i) == {s \in Range(shape_elements) : shape_id(s) = i}

\* the wrapper objects a caller can hold: those of the index and those in
\* the child caches
HeldWrappers ==
    {wrapper[s] : s \in Range(shape_elements)}
        \cup UNION {Range(wrapper[s].child_shapes) : s \in Range(shape_elements)}

\* C18: get_shape_by_id(i) returns the one indexed shape whose group has id
\* i, raises not-found (KeyError) when there is none and the duplicate
\* error (RuntimeError) when there are several; the shape returned equals,
\* and hashes like, exactly the wrappers of the same element.
C18_IdLookup ==
    [][(ret'.op = "get_shape_by_id")
          => /\ Cardinality(WithId(ret'.val.arg)) = 0 => ret'.out = "KeyError"
             /\ Cardinality(WithId(ret'.val.arg)) > 1 => ret'.out = "RuntimeError"
             /\ Cardinality(WithId(ret'.val.arg)) = 1 =>
                   /\ ret'.out = "ok"
                   /\ ret'.val.shape.el \in WithId(ret'.val.arg)
                   /\ ret'.val.shape = wrapper[ret'.val.shape.el]
                   /\ \A w \in HeldWrappers :
                         /\ ShapeEq(ret'.val.shape, w) <=> w.el \in WithId(ret'.val.arg)
                         /\ ShapeEq(ret'.val.shape, w) =>
                               ShapeHash(ret'.val.shape) = ShapeHash(w)]_vars

\* a page with a duplicated id has answered for a unique one, and a child
\* cache holds another wrapper of the shape returned
C18_Witness ==
    /\ ret.op = "get_shape_by_id"
    /\ ret.out = "ok"
    /\ \E i \in 1..MaxIds : Cardinality(WithId(i)) > 1
    /\ \E w \in HeldWrappers : w.el = ret.val.shape.el /\ w # ret.val.shape

\* ----------------------------------------------------------------- C19
\* the markers of the document whose literal is not a shape type
UnknownTypeMarkers ==
    {n \in Nodes : marker[n] /\ shape_type[n] \notin Range(PenpotShapeTypeLiterals)}

\* C19: constructing a shape from a marker whose type literal is unknown
\* fails with an error that names the literal and lists the valid literals,
\* and building a page on a document with such a marker fails the same way
\* and leaves no index; no unknown literal is ever held by a shape.
C19_SchemaGuard ==
    [][/\ \A s \in UnknownTypeMarkers :
             (ret'.op = "PenpotShapeElement" /\ NewShape(s))
                => /\ ret'.out = "ValueError"
                   /\ ret'.val.literal = shape_type[s]
                   /\ Range(ret'.val.valid) = Range(PenpotShapeTypeLiterals)
       /\ (ret'.op = "PenpotPageSVG" /\ UnknownTypeMarkers # {})
             => /\ ret'.out = "ValueError"
                /\ ret'.val.literal \in {shape_type[s] : s \in UnknownTypeMarkers}
                /\ ret'.val.literal \notin Range(ret'.val.valid)
                /\ Range(ret'.val.valid) = Range(PenpotShapeTypeLiterals)
                /\ shape_elements' = <<>>
                /\ DOMAIN wrapper' = {}
       /\ \A s \in Range(shape_elements') :
             shape_type[s] \in Range(PenpotShapeTypeLiterals)]_vars

\* a page was refused for a "blob" marker below a shape of a known type
C19_Witness ==
    /\ ret.op = "PenpotPageSVG"
    /\ ret.out = "ValueError"
    /\ ret.val.literal = "blob"
    /\ shape_elements = <<>>
    /\ \E s \in UnknownTypeMarkers :
          /\ get_parent_shape(parent, s) # NoNode
          /\ get_parent_shape(parent, s) \notin UnknownTypeMarkers

\* ----------------------------------------------------------------- C20
\* C20: is_visible is false for a shape whose group carries the hidden
\* marker, and otherwise equals check_for_visible_content().
C20_VisibleIffShownAndHasContent ==
    [][\A s \in Nodes :
          (ret'.op = "is_visible" /\ IsVisible(s))
             => ret'.val = IF hidden[s] THEN FALSE
                           ELSE check_for_visible_content(parent, wrapper[s]).res]_vars

\* ----------------------------------------------------------------- C26
\* C26: PenpotShapeElement.remove() detaches exactly the shape's group: the
\* group loses its parent, everything below it stays below it; the flat
\* shape list, the depth buckets, the depth map and every id lookup of the
\* page are as before, so the id of the removed shape and the ids of the
\* shapes below it still resolve.
C26_NodeRemovalLeavesIndex ==
    [][\A s \in Nodes :
          (ret'.op = "remove" /\ ret'.out = "ok" /\ remove(s))
             => /\ parent'[s] = NoNode
                /\ \A n \in Nodes \ {s} : parent'[n] = parent[n]
                /\ Subtree(parent', s) = Subtree(parent, s)
                /\ shape_elements' = shape_elements
                /\ depth_to_shape_el' = depth_to_shape_el
                /\ shape_el_to_depth' = shape_el_to_depth
                /\ \A id \in Nodes :
                      get_shape_by_id(shape_elements', id)
                         = get_shape_by_id(shape_elements, id)
                /\ \A n \in {s} \cup ShapeDescendants(parent, s) :
                      n \in Range(shape_elements) =>
                         get_shape_by_id(shape_elements', shape_id(n)).val = n]_vars

\* a shape with shapes below it was removed at node level and all of them
\* still resolve
C26_Witness ==
    /\ ret.op = "remove" /\ ret.out = "ok"
    /\ \E s \in Range(shape_elements) :
          /\ parent[s] = NoNode
          /\ ShapeDescendants(parent, s) # {}
          /\ \A n \in {s} \cup ShapeDescendants(parent, s) :
                get_shape_by_id(shape_elements, shape_id(n)).out = "ok"

\* ----------------------------------------------------------------- C27
\* the order in which remove_elements_with_no_visible_content goes through
\* the shapes of the index
PruneOrder == SortedByDepthDesc(shape_elements, wrapper, MaxNodes)

\* t comes before u in sequence q
Before(q, t, u) ==
    \E i, j \in 1..Len(q) : i < j /\ q[i] = t /\ q[j] = u

ShapeWithId(id) == get_shape_by_id(shape_elements, id).val

Removed(id) == {ShapeWithId(id)} \cup ShapeDescendants(parent, ShapeWithId(id))

\* every shape outside gone is indexed as before: parent, depth, name, type,
\* box and relative order
SurvivorsUntouched(gone) ==
    /\ shape_elements' = SelectSeq(shape_elements, LAMBDA n : n \notin gone)
    /\ \A n \in Range(shape_elements) \ gone :
          /\ get_parent_shape(parent', n) = get_parent_shape(parent, n)
          /\ shape_el_to_depth'[n] = shape_el_to_depth[n]
          /\ n \in Range(depth_to_shape_el'[shape_el_to_depth[n]])
          /\ name'[n] = name[n]
          /\ shape_type'[n] = shape_type[n]
          /\ view_box'[n] = view_box[n]

\* C28 as claimed: whenever remove_shape(id) returns, the index has lost
\* exactly the shape with that id and its shape descendants and every other
\* shape is indexed as before; a remove_shape that raises not-found changes
\* neither the tree nor the index.
C28_RemovalFrame ==
    [][\A id \in Nodes :
          (ret'.op = "remove_shape" /\ remove_shape(id))
             => /\ ret'.out = "ok" => SurvivorsUntouched(Removed(id))
                /\ ret'.out = "KeyError" =>
                      /\ parent' = parent
                      /\ UNCHANGED index]_vars

\* C28, amended: the same on a page whose index lists exactly the attached
\* shapes; after node-level removals the rebuild of remove_shape(id) also
\* drops the shapes those had detached, and the index keeps, in their
\* order, exactly the shapes still attached.
C28_RemovalFrameOnConsistentIndex ==
    [][\A id \in Nodes :
          (ret'.op = "remove_shape" /\ remove_shape(id))
             => /\ (ret'.out = "ok" /\ NoStaleIndex) => SurvivorsUntouched(Removed(id))
                /\ ret'.out = "ok" =>
                      /\ Removed(id) \cap Range(shape_elements') = {}
                      /\ shape_elements' =
                            SelectSeq(shape_elements, LAMBDA n : Attached(parent', n))
                /\ ret'.out = "KeyError" =>
                      /\ parent' = parent
                      /\ UNCHANGED index]_vars

\* remove_shape has taken a shape with a shape below it out of a consistent
\* index and a shape next to it is left
C28_Witness ==
    /\ ret.op = "remove_shape" /\ ret.out = "ok"
    /\ shape_elements # <<>>
    /\ \A n \in ShapeNodes : ~Attached(parent, n) =>
          \E s \in ShapeNodes : parent[s] = NoNode /\ s \in AncestorsOrSelf(parent, n)
    /\ Cardinality({s \in ShapeNodes : parent[s] = NoNode}) = 1
    /\ \E s \in ShapeNodes : parent[s] = NoNode /\ ShapeDescendants(parent, s) # {}

\* ----------------------------------------------------------------- C30
\* what get_shape_by_name(n) answers once the step is done
LookupAfter(n, require_unique) ==
    _get_shapes_by_attr(shape_elements', name', n, require_unique)

\* C30: assigning a name to a shape never fails, also when another shape
\* carries the name already, and changes nothing but that shape's name;
\* afterwards get_shape_by_name of the new name returns the shape, or raises
\* the ambiguity error when another shape has the name too, and the old
\* name no longer resolves to the shape.
C30_RenameIsAttributeWrite ==
    [][ret'.op = "set_name" =>
          /\ ret'.out = "ok"
          /\ name' = [name EXCEPT ![ret'.val.shape] = ret'.val.arg]
          /\ ret'.val.old = name[ret'.val.shape]
          /\ UNCHANGED <<tag, marker, gid, shape_type, style, clip_rect>>
          /\ UNCHANGED <<hidden, parent, index, view_box, copy_view_box>>
          /\ IF \E t \in Range(shape_elements) \ {ret'.val.shape} : name[t] = ret'.val.arg
             THEN LookupAfter(ret'.val.arg, TRUE).out = "RuntimeError"
             ELSE /\ LookupAfter(ret'.val.arg, TRUE).out = "ok"
                  /\ LookupAfter(ret'.val.arg, TRUE).val = ret'.val.shape
          /\ ret'.val.shape \in Range(LookupAfter(ret'.val.arg, FALSE).val)
          /\ ret'.val.old # ret'.val.arg =>
                /\ ret'.val.shape \notin Range(LookupAfter(ret'.val.old, FALSE).val)
                /\ ~(/\ LookupAfter(ret'.val.old, TRUE).out = "ok"
                     /\ LookupAfter(ret'.val.old, TRUE).val = ret'.val.shape)]_vars

\* a shape was given the name another shape of the page carries
C30_Witness ==
    /\ ret.op = "set_name" /\ ret.out = "ok"
    /\ ret.val.old # ret.val.arg
    /\ name[ret.val.shape] = ret.val.arg
    /\ \E t \in Range(shape_elements) \ {ret.val.shape} : name[t] = ret.val.arg
    /\ get_shape_by_name(shape_elements, ret.val.arg, TRUE).out = "RuntimeError"

\* ----------------------------------------------------------------- C21
\* the shapes of the subtree of s, s first, in document order
ShapesBelow(par, s) == SelectSeq(Iter(par, s), LAMBDA n : marker[n])

C22_MinimalFormRetention ==
    [][ret'.op = "from_shape" =>
          \E els \in {Let(fragment', ElsOf)} :
             /\ \A n \in Subtree(parent, ret'.val.of) : marker[n] => n \in els
             /\ \A n \in Subtree(parent, ret'.val.of) \ els :
                   /\ ~marker[n]
                   /\ ~(tag[n] = "g" /\ \E m \in Subtree(parent, n) : marker[m])
                   /\ n \notin ret'.val.retained]_vars

\* ----------------------------------------------------------------- C23
\* a marker in the subtree of s whose next sibling is not a group
UnexpectedSiblings(s) ==
    {g \in Subtree(parent, s) :
        /\ marker[g]
        /\ Children(parent, g) # <<>>
        /\ tag[Children(parent, g)[1]] # "g"}

\* C23: when the element right after a shape marker is not its rendering
\* group, PenpotMinimalShapeXML.from_shape raises instead of returning an
\* extraction.
C23_SiblingGuard ==
    [][(ret'.op = "from_shape" /\ UnexpectedSiblings(ret'.val.of) # {})
          => ret'.out # "ok"]_vars

\* ----------------------------------------------------------------- C29
\* C29: to_svg() and from_shape() leave the tree, the attributes of the
\* shapes and the index of the page as they were, however often they are
\* called: what they return is a copy of the group's subtree, and an edit of
\* what they returned changes nothing in the page.
C29_ExtractionLeavesSource ==
    [][/\ ret'.op \in {"to_svg", "from_shape", "edit_fragment"} =>
             /\ parent' = parent
             /\ UNCHANGED <<tag, marker, gid, shape_type, style, name, clip_rect>>
             /\ UNCHANGED <<hidden, index, view_box, copy_view_box>>
       /\ (ret'.op = "to_svg" /\ ret'.out = "ok") =>
             \E svg \in {fragment'} :
                /\ svg.copied
                /\ ElsOf(svg) = {Root} \cup Subtree(parent, svg.of)
                /\ \A n \in Subtree(parent, svg.of) \ {svg.of} : svg.par[n] = parent[n]
       /\ ret'.op = "from_shape" =>
             \E xml \in {fragment'} :
                /\ xml.copied
                /\ ElsOf(xml) \subseteq Subtree(parent, xml.of)]_vars

\* a shape of an extracted SVG was renamed after a second extraction of the
\* same shape; the page still has the old name
C29_Witness ==
    /\ ret.op = "edit_fragment"
    /\ fragment.kind = "svg"
    /\ fragment.of # ret.val.shape
    /\ fragment.name[ret.val.shape] = ret.val.arg
    /\ name[ret.val.shape] # ret.val.arg
    /\ shape_elements = ShapesBelow(parent, Root)

\* ----------------------------------------------------------------- C24
\* the tree a page works on
TreeOfPage(heap, page) == heap[page.dom]

\* C24: pages built on one parsed document share nothing that changes: a
\* removal, a prune, a renaming or a box written on one page leaves the
\* tree and the index of every other page, and the document they were built
\* from, as they were, and a new page gets a tree no other page works on.
C24_PagesIndependent ==
    [][/\ ret'.op \in {"remove_shape", "prune", "set_name", "set_default_view_box"} =>
             /\ trees'[1] = trees[1]
             /\ \A k \in 1..Len(pages) \ {ret'.val.page} :
                   /\ pages'[k] = pages[k]
                   /\ TreeOfPage(trees', pages'[k]) = TreeOfPage(trees, pages[k])
       /\ ret'.op = "PenpotPageSVG" =>
             /\ trees'[1] = trees[1]
             /\ pages'[Len(pages')].dom # 1
             /\ \A k \in 1..Len(pages) :
                   /\ pages'[k] = pages[k]
                   /\ TreeOfPage(trees', pages'[k]) = TreeOfPage(trees, pages[k])
                   /\ pages'[Len(pages')].dom # pages[k].dom]_vars

\* two pages of one document: a shape was removed from the first, the
\* second has renamed a shape and still holds every shape of the document
C24_Witness ==
    /\ Len(pages) = 2
    /\ ret.op = "remove_shape" /\ ret.out = "ok" /\ ret.val.page = 1
    /\ pages[2].shape_elements = shape_elements
    /\ Len(pages[1].shape_elements) < Len(pages[2].shape_elements)
    /\ TreeOfPage(trees, pages[2]).par = parent
    /\ TreeOfPage(trees, pages[2]).name # name
    /\ TreeOfPage(trees, pages[1]).name = name

\* ----------------------------------------------------------------- C25
\* C25: in the code ensure_unique_ids_in_svg_code returns, the values of the
\* id attributes are pairwise distinct and none of them is an id of the code
\* it was given.
C25_IdsUnique ==
    [][ret'.op = "ensure_unique_ids_in_svg_code" =>
          /\ \A i, j \in 1..Len(FindAllIds(svg_code')) :
                i # j => FindAllIds(svg_code')[i] # FindAllIds(svg_code')[j]
          /\ \A i \in 1..Len(FindAllIds(svg_code')) :
                FindAllIds(svg_code')[i] \notin Range(FindAllIds(svg_code))]_vars

====
